---------------------------- MODULE Spec2Model ----------------------------
(***************************************************************************)
(* Model of the cephiq-lite repository.                                    *)
(*                                                                         *)
(* Two runtimes live in the repository and are modelled side by side:      *)
(*   - the orchestrator (src/orchestrator/runner.py, tools_stub.py) with   *)
(*     its drivers, the runner main loop and the chat CLI (src/chat_cli.py)*)
(*     -- specification SpecOrch;                                          *)
(*   - the self-contained Agent of cephiq_lite (agent.py, llm.py,          *)
(*     envelope.py, tools.py, tags.py) -- specification SpecAgent.         *)
(***************************************************************************)
EXTENDS Integers, Sequences, FiniteSets, TLC

VARIABLES
    \* ---- orchestrator -------------------------------------------------
    driver,          \* which driver owns the context: "runner" | "chat"
    use_flags,       \* the USE_* environment flags that are "1" at import
    n_servers,       \* number of servers in mcpServers.json
    ctx,             \* the context dict handed through run_one_cycle
    pending_tool,    \* ChatCLI.pending_tool
    cycles,          \* loop counter of the driver loop (i / cycles)
    steps,           \* number of run_one_cycle calls so far (model bound)
    opc,             \* driver position: "idle" | "turn" | "stopped" | "crashed" | "hung"
    last_exec,       \* what the latest execute_envelope_tool call did
    sessions,        \* the session caches: _SESSION (STDIO) and _SESSIONS[url] (SSE)
    last_session,    \* what _ensure_session handed to the latest call_tool
    \* ---- cephiq_lite Agent ---------------------------------------------
    config,          \* AgentConfig
    tag_allowed,     \* union of allowed_tools over the tags in the store that apply
    allowed_tools,   \* Agent.allowed_tools
    tags_resolved,   \* Agent.current_tags has been resolved by run()
    history,         \* Agent.history
    cycles_used,     \* Agent.cycles_used
    tokens_used,     \* Agent.tokens_used
    elapsed,         \* time.time() - start_time, in ticks
    last_observation,\* local of run()
    final_envelope,  \* local of run()
    envelope,        \* local of run(): the envelope of the current cycle
    result,          \* what run() returned last
    executed,        \* tools handed to ToolExecutor in the current cycle
    llm_calls,       \* chat-completion calls made by the current decide_with_retry
    runs,            \* number of run() calls so far (model bound)
    pc,              \* position in run(): "idle" | "check" | "retry" | "done" | "raised"
    \* ---- cephiq_lite LLMClient (decide_with_retry on its own) ------------
    response,        \* what the chat-completion API gave back last
    decided,         \* what LLMClient.decide returned last
    attempts,        \* decide calls made by the current decide_with_retry
    prompt_errors,   \* error lists appended to the last (user) message
    decisions,       \* decide_with_retry calls so far (model bound)
    lpc,             \* position in decide_with_retry: "idle" | "retry" | "returned"
    \* ---- chat_cli_enhanced.py: EnhancedChatCLI.run_turn --------------------
    esc_pressed,     \* an ESC key press waits in the keyboard buffer
    cancelled,       \* run_turn has seen the ESC key in this turn
    env_continue,    \* meta.continue of the envelope step_once decided on
    \* ---- cephiq_lite TagManager (tags.py) -------------------------------
    tags,            \* TagManager.tags, in insertion order
    principal,       \* the user resolve_tags_for_user was last called for
    resolved,        \* what resolve_tags_for_user returned
    granted,         \* what get_allowed_tools returned for resolved
    access,          \* the tools validate_tool_access answered True for
    prompt,          \* what build_system_prompt returned for resolved, line by line
    \* ---- _auto_repair_envelope applied to one dict (decide_next.py)
    parsed,          \* the dict the model's JSON parsed to
    auto_repaired,   \* what _auto_repair_envelope returned last
    applications,    \* calls of _auto_repair_envelope on this dict so far
    \* ---- the SSE bridge of one connection attempt (mcp_client_sse.py)
    messages_url,    \* nonlocal messages_url of _ensure_session
    messages_ready,  \* messages_ready.is_set()
    outbound,        \* client_to_server_stream: written by the session, not yet read
    early,           \* messages written to outbound before messages_ready was set
    posts,           \* the POSTs of message_sender so far, in order
    inbound,         \* messages put on server_to_client_stream so far
    events_seen,     \* SSE events process_events has read so far
    reader_pc,       \* process_events: "none" | "reading" | "ended" | "failed"
    sender_pc,       \* message_sender: "none" | "waiting" | "sending" | "ended"
    \* ---- one call of decide_next (decide_next.py)
    dn_max_retries,  \* argument max_retries of decide_next
    dn_max_repairs,  \* argument max_repairs of decide_next
    dn_attempt,      \* loop variable attempt of decide_next
    dn_repairs,      \* local repairs of _decide_next_attempt
    dn_calls,        \* calls of _call_openai_json / _call_anthropic_json so far
    dn_envelope,     \* local envelope of _decide_next_attempt
    dn_result,       \* what decide_next returned
    dn_pc,           \* position in decide_next: "idle" | "attempt" | "repair" | "returned"
    \* ---- concurrent _ensure_session calls for one URL (mcp_client_sse.py)
    es_pc,           \* caller -> "idle" | "connecting" | "returned" | "raised"
    es_tries,        \* caller -> turns of the retry loop begun
    es_got,          \* caller -> the session _ensure_session returned, 0 for none
    es_cache,        \* _SESSIONS[url]: a session, 0 when the key is absent
    es_created,      \* ClientSession objects created for the URL so far
    es_initialized,  \* the sessions whose initialize() succeeded
    \* ---- ToolExecutor.execute_batch, one call seen thread by thread (tools.py)
    bt_parallel,     \* the parallel argument
    bt_size,         \* len(tools)
    bt_submitted,    \* members handed to executor.submit, or run in turn
    bt_state,        \* per member: "new", "queued", "running", "ok", "failed"
    bt_results,      \* members whose result is in results
    bt_pc,           \* "running", "returned"
    \* ---- workflow tools of the combined MCP server (combined_mcp_server.py)
    workflow_states, \* workflow number -> state record, in order of creation
    wf_called,       \* the last workflow tool call: [op, id]
    wf_returned,     \* what it returned: "status" of the reply, "error" or "raised"
    \* ---- goal and todo list of the enhanced chat CLI (chat_cli_enhanced.py)
    goal,            \* ctx["goal"]
    todo_list,       \* ctx["todo_list"], records [id, status]
    td_call          \* the todo_update handled last: [action, item]

ovars == <<driver, use_flags, n_servers, ctx, pending_tool, cycles, steps, opc, last_exec,
           sessions, last_session>>
avars == <<config, tag_allowed, allowed_tools, tags_resolved, history, cycles_used,
           tokens_used, elapsed, last_observation, final_envelope, envelope, result,
           executed, llm_calls, runs, pc>>
lvars == <<response, decided, attempts, prompt_errors, decisions, lpc>>
tvars == <<esc_pressed, cancelled, env_continue>>
gvars == <<tags, principal, resolved, granted, access, prompt>>
rvars == <<parsed, auto_repaired, applications>>
svars == <<messages_url, messages_ready, outbound, early, posts, inbound, events_seen, reader_pc, sender_pc>>
dvars == <<dn_max_retries, dn_max_repairs, dn_attempt, dn_repairs, dn_calls, dn_envelope, dn_result, dn_pc>>
evars == <<es_pc, es_tries, es_got, es_cache, es_created, es_initialized>>
bvars == <<bt_parallel, bt_size, bt_submitted, bt_state, bt_results, bt_pc>>
wvars == <<workflow_states, wf_called, wf_returned>>
kvars == <<goal, todo_list, td_call>>
vars == <<ovars, avars, lvars, tvars, gvars, rvars, svars, dvars, evars, bvars, wvars, kvars>>

(***************************************************************************)
(* Bounds of the model                                                     *)
(***************************************************************************)
MaxServers == 2
\* run_one_cycle calls explored per session (cycles and approvals together)
MaxSteps == 2
MaxCycles == 2      \* the largest config.max_cycles
MaxRuns == 2        \* run() calls on one Agent

\* Program constants
MAX_CYCLES == 6          \* runner.py: int(os.getenv("MAX_CYCLES", "6"))
max_turn_cycles == 3     \* ChatCLI.__init__(max_turn_cycles=3)

None == "none"

(***************************************************************************)
(*                       ORCHESTRATOR: tools_stub.py                       *)
(***************************************************************************)
Transports == {"OPENAI", "DIRECT", "STDIO", "SSE"}

\* The one client module imported at load time (if / elif chain).
SelectedTransport(flags) ==
    IF "OPENAI" \in flags THEN "OPENAI"
    ELSE IF "DIRECT" \in flags THEN "DIRECT"
    ELSE IF "STDIO" \in flags THEN "STDIO"
    ELSE IF "SSE" \in flags THEN "SSE"
    ELSE None

\* With no flag set the module raises RuntimeError at import.
ModuleLoads(flags) == SelectedTransport(flags) # None

DANGEROUS == {"execute_powershell", "powershell", "shell", "bash", "python",
              "python_eval", "delete_item", "write_block", "change_directory"}

\* Tool names the model draws envelopes from.
DangerousNames == {"bash"}
SafeNames == {"read_file"}
WorkflowNames == {"start_demo_workflow"}
PlainNames == DangerousNames \cup SafeNames \cup WorkflowNames

Labels == {None, "s1", "zz"}        \* "zz" is no configured label

\* arguments of a tool envelope:
\*   name / tool_name : arguments["name"], arguments["tool_name"]
\*   approved         : arguments["approved"]
\*   inner_approved   : arguments["arguments"]["approved"]
\*   server_label / server_url
NoArgs == [name |-> None, tool_name |-> None, approved |-> FALSE,
           inner_approved |-> FALSE, server_label |-> None, server_url |-> None]

ServerLabels == <<"s1", "s2", "s3", "s4">>
ServerLabel(i) == ServerLabels[i]
ServerUrl(lbl) ==
    IF lbl = "s1" THEN "u1" ELSE IF lbl = "s2" THEN "u2"
    ELSE IF lbl = "s3" THEN "u3" ELSE IF lbl = "s4" THEN "u4" ELSE None

\* _load_servers_map(): {label: url}; here the set of labels.
load_servers_map(n) == {ServerLabel(i) : i \in 1..n}

\* _resolve_server(): the first server (no default_label), else (None, None).
resolve_server(n) ==
    IF n >= 1 THEN [label |-> "s1", url |-> "u1"] ELSE [label |-> None, url |-> None]

\* Outcomes of execute_envelope_tool before the transport answers.
Call(t, nm, appr, url) ==
    [kind |-> "call", transport |-> t, name |-> nm, approved |-> appr, url |-> url, obs |-> None]
Value(o) ==
    [kind |-> "value", transport |-> None, name |-> None, approved |-> FALSE, url |-> None, obs |-> o]
Raise ==
    [kind |-> "raise", transport |-> None, name |-> None, approved |-> FALSE, url |-> None, obs |-> None]
NoExec ==
    [kind |-> None, transport |-> None, name |-> None, approved |-> FALSE, url |-> None, obs |-> None]

\* A use of client module t: a NameError unless t is the module imported.
UseClient(flags, t, nm, appr, url) ==
    IF SelectedTransport(flags) = t THEN Call(t, nm, appr, url)
    ELSE [Raise EXCEPT !.transport = t, !.name = nm]

\* mcp_search / mcp_fetch (what is "search" or "fetch").
mcp_search(flags, n, what, args) ==
    IF "OPENAI" \in flags THEN
        LET r == IF args.server_label = None \/ args.server_url = None
                 THEN resolve_server(n)
                 ELSE [label |-> args.server_label, url |-> args.server_url]
        IN IF r.label = None \/ r.url = None THEN Raise
           ELSE UseClient(flags, "OPENAI", what, args.approved, r.url)
    ELSE IF "DIRECT" \in flags THEN
        LET u == IF args.server_url = None THEN resolve_server(n).url ELSE args.server_url
        IN IF u = None THEN Raise
           ELSE UseClient(flags, "DIRECT", what, args.approved, u)
    ELSE IF "STDIO" \in flags THEN UseClient(flags, "STDIO", what, args.approved, None)
    ELSE IF "SSE" \in flags THEN UseClient(flags, "SSE", what, args.approved, args.server_url)
    ELSE Raise

IsWorkflow(tool) == tool \in WorkflowNames    \* "workflow" in tool

\* High-risk gating of the mcp_call path.
GateBlocks(name, params_approved) == name \in DANGEROUS /\ ~params_approved

RECURSIVE execute_envelope_tool(_, _, _, _)
execute_envelope_tool(flags, n, tool, args) ==
    IF tool = "mcp_search" THEN mcp_search(flags, n, "search", args)
    ELSE IF tool = "mcp_fetch" THEN mcp_search(flags, n, "fetch", args)
    ELSE IF IsWorkflow(tool) /\ ({"STDIO", "SSE", "DIRECT"} \cap flags) = {}
        THEN Value("error_workflow_requires_transport")
    ELSE IF IsWorkflow(tool) /\ "DIRECT" \in flags
        THEN UseClient(flags, "DIRECT", tool, args.approved, None)
    ELSE IF tool # "mcp_call" /\ "STDIO" \in flags
        THEN UseClient(flags, "STDIO", tool, args.approved, None)
    ELSE IF tool # "mcp_call" /\ "SSE" \in flags
        THEN UseClient(flags, "SSE", tool, args.approved,
                       IF n >= 1 THEN "u1" ELSE None)
    ELSE IF tool # "mcp_call" /\ "DIRECT" \in flags
        THEN UseClient(flags, "DIRECT", tool, args.approved, None)
    ELSE IF tool = "mcp_call" THEN
        IF "DIRECT" \in flags THEN
            LET tool_name == IF args.tool_name # None THEN args.tool_name ELSE args.name
                tool_args == [NoArgs EXCEPT !.approved = args.inner_approved]
            IN IF tool_name = None THEN Value("error_missing_tool_name")
               ELSE execute_envelope_tool(flags, n, tool_name, tool_args)
        ELSE IF ({"STDIO", "SSE"} \cap flags) = {} THEN Value("error_mcp_call_requires")
        ELSE IF args.name = None THEN Value("error_missing_name")
        ELSE IF GateBlocks(args.name, args.inner_approved) THEN Value("approval_required")
        ELSE
            LET servers == load_servers_map(n)
                by_label == IF args.server_label \in servers
                            THEN ServerUrl(args.server_label) ELSE None
            IN IF args.server_url = None /\ args.server_label # None /\ by_label = None
                   THEN Value("error_unknown_server_label")
               ELSE IF args.server_url = None /\ args.server_label = None
                       /\ Cardinality(servers) > 1
                   THEN Value("error_multiple_servers")
               ELSE
                   LET url == IF args.server_url # None THEN args.server_url
                              ELSE IF args.server_label # None THEN by_label
                              ELSE IF Cardinality(servers) = 1 THEN "u1" ELSE None
                   IN IF "STDIO" \in flags
                      THEN UseClient(flags, "STDIO", args.name, args.inner_approved, None)
                      ELSE UseClient(flags, "SSE", args.name, args.inner_approved, url)
    ELSE Value("error_unknown_tool")

(***************************************************************************)
(*     ORCHESTRATOR: mcp_client_stdio.py, mcp_client_sse.py,               *)
(*                   mcp_client_direct.py, mcp_client_openai.py            *)
(***************************************************************************)
\* What the world does to one call: nothing, the tool fails on the server, the
\* STDIO server script is not there, the server cannot be reached.
Conditions == {"fine", "tool_error", "no_script", "connect_fails"}

\* The keys of the session caches: the one _SESSION of mcp_client_stdio and the
\* urls of _SESSIONS of mcp_client_sse.
SessionKeys == {"STDIO", "u1", "u9"}

\* A cached session is "live" while the event loop it was made in runs and
\* "dead" once that loop is closed: its streams and tasks belong to the loop.
\* The STDIO session is "exited" once its child server process has exited.
NoSessions == [k \in SessionKeys |-> "none"]

\* The cache entry a call uses; for SSE: server_url or _load_mcp_url(), which
\* gives the first configured server (MCP_SSE_URL is not set).
SessionKey(out, n) ==
    IF out.transport = "STDIO" THEN "STDIO"
    ELSE IF out.transport = "SSE"
        THEN (IF out.url # None THEN out.url ELSE resolve_server(n).url)
    ELSE None

Session(key, reused, state, raised) ==
    [key |-> key, reused |-> reused, state |-> state, raised |-> raised]
NoSession == Session(None, FALSE, "none", FALSE)

\* _ensure_session of mcp_client_stdio and of mcp_client_sse: the cached session
\* if there is one, else a new one; RuntimeError when the script is missing, no
\* url is configured or the connection fails (SSE: after the four delays).
ensure_session(out, n, cond, sess) ==
    LET key == SessionKey(out, n) IN
    IF out.kind # "call" \/ out.transport \notin {"STDIO", "SSE"} THEN NoSession
    ELSE IF key = None THEN Session(None, FALSE, "none", TRUE)
    ELSE IF sess[key] # "none" THEN Session(key, TRUE, sess[key], FALSE)
    ELSE IF out.transport = "STDIO" /\ cond = "no_script"
        THEN Session(key, FALSE, "none", TRUE)
    ELSE IF cond = "connect_fails" THEN Session(key, FALSE, "none", TRUE)
    ELSE Session(key, FALSE, "live", FALSE)

\* call_tool_async of mcp_client_stdio and of mcp_client_sse on the session it
\* was handed: the exception of _ensure_session escapes; a tool error comes
\* back as is_error; a session whose loop is closed cannot answer, the call
\* raises or never returns.
call_tool_async(s, cond) ==
    IF s.raised THEN {"raise"}
    ELSE IF s.state \in {"dead", "exited"} THEN {"raise", "hang"}
    ELSE IF cond = "tool_error" THEN {"is_error"}
    ELSE {"ok"}

\* mcp_client_direct.call_tool: the whole body is inside try / except.
direct_call_tool(cond) == IF cond = "fine" THEN "ok" ELSE "is_error"

\* search / fetch of mcp_client_direct and mcp_client_openai: only the parsing
\* of the answer is guarded, a failed request raises.
search(cond) ==
    IF cond = "connect_fails" THEN "raise"
    ELSE IF cond = "tool_error" THEN "is_error"
    ELSE "ok"

\* What a transport may answer.
TransportObs == {"ok", "is_error", "raise", "hang"}

\* The answers the selected client module may give to the call out.
Answers(out, n, cond, sess) ==
    IF out.kind # "call" THEN {"ok"}
    ELSE IF out.transport \in {"STDIO", "SSE"}
        THEN call_tool_async(ensure_session(out, n, cond, sess), cond)
    ELSE IF out.name \in {"search", "fetch"} THEN {search(cond)}
    ELSE {direct_call_tool(cond)}

\* The synchronous call_tool of mcp_client_stdio and of mcp_client_sse:
\* asyncio.run(call_tool_async(...)) makes a new event loop for the call and
\* closes it when the call ends, cancelling the tasks still running in it; the
\* module-level caches keep their sessions.
call_tool(out, n, cond, sess) ==
    LET s == ensure_session(out, n, cond, sess) IN
    IF s.key # None /\ ~s.raised
    THEN [k \in SessionKeys |->
             IF sess[k] = "exited" THEN "exited"
             ELSE IF k = s.key \/ sess[k] # "none" THEN "dead" ELSE "none"]
    ELSE sess

(***************************************************************************)
(*                 ORCHESTRATOR: runner.py and chat_cli.py                 *)
(***************************************************************************)
OrchTypes == {"tool", "message", "plan", "ask_human", "wait", "finish"}

Env(type, tool, args) == [type |-> type, tool |-> tool, args |-> args]
NoEnvelope == Env(None, None, NoArgs)

\* The fallback envelope decide_next returns after all retries failed: it is keyed
\* by "state", it has no "type".
FallbackEnvelope == Env("state_error", None, NoArgs)

\* Arguments an LLM may attach to a tool envelope (it never sets approved itself
\* on a plain tool: that is the user's part).
McpCallArgs ==
    {NoArgs}
    \cup {[NoArgs EXCEPT !.name = "bash", !.inner_approved = ia] : ia \in BOOLEAN}
    \cup {[NoArgs EXCEPT !.name = "read_file", !.server_label = sl] : sl \in Labels}
    \cup {[NoArgs EXCEPT !.tool_name = "read_file"],
          [NoArgs EXCEPT !.name = "read_file", !.server_url = "u9"]}

SearchArgs ==
    {NoArgs, [NoArgs EXCEPT !.server_label = "s1", !.server_url = "u9"]}

PlainArgs(t) ==
    {[NoArgs EXCEPT !.approved = a] : a \in IF t \in DANGEROUS THEN BOOLEAN ELSE {FALSE}}

\* Envelopes decide_next may hand to the driver.
DecidedEnvelopes ==
    {Env("tool", "mcp_call", a) : a \in McpCallArgs}
    \cup {Env("tool", t, a) : t \in {"mcp_search", "mcp_fetch"}, a \in SearchArgs}
    \cup UNION {{Env("tool", t, a) : a \in PlainArgs(t)} : t \in PlainNames}
    \cup {Env(ty, None, NoArgs) : ty \in OrchTypes \ {"tool"}}
    \cup {FallbackEnvelope}

\* validate_envelope(envelope, ENVELOPE_SCHEMA_PATH): the JSON schema of the
\* type-keyed dialect.
schema_valid(env) ==
    /\ env.type \in OrchTypes
    /\ env.type = "tool" => env.tool # None

Event(type, tool, obs) == type

\* The observation execute_envelope_tool returns, given the transport's answer.
ObsOf(out, tobs) == IF out.kind = "call" THEN tobs ELSE out.obs

\* True when the tool call of run_one_cycle ends in an exception.
CycleRaises(c, flags, n, tobs) ==
    /\ schema_valid(c.envelope)
    /\ c.envelope.type = "tool"
    /\ LET out == execute_envelope_tool(flags, n, c.envelope.tool, c.envelope.args)
       IN out.kind = "raise" \/ (out.kind = "call" /\ tobs = "raise")

\* True when the tool call of run_one_cycle never returns.
CycleHangs(c, flags, n, tobs) ==
    /\ schema_valid(c.envelope)
    /\ c.envelope.type = "tool"
    /\ execute_envelope_tool(flags, n, c.envelope.tool, c.envelope.args).kind = "call"
    /\ tobs = "hang"

\* A runner that looks only for the error form of the signal.
SignalsApprovalErrorOnly(obs) == obs = "error_approval_required"

\* The approval test of run_one_cycle on the observation:
\* obs.get("approval_required") or obs.get("error") == "approval_required".
SignalsApproval(obs) == obs \in {"approval_required", "error_approval_required"}

run_one_cycle_logging(c, flags, n, tobs) ==
    LET env == c.envelope IN
    IF ~schema_valid(env) THEN [c EXCEPT !.error = "invalid_envelope",
                                          !.history = Append(@, Event("error", None, None))]
    ELSE IF env.type = "tool" THEN
        LET obs == ObsOf(execute_envelope_tool(flags, n, env.tool, env.args), tobs)
        IN IF SignalsApproval(obs)
           THEN [c EXCEPT !.history = Append(@, Event("approval_request", None, None)),
                          !.status = "waiting"]
           ELSE [c EXCEPT !.last_observation = obs,
                          !.history = Append(@, Event("tool_call", env.tool, obs))]
    ELSE IF env.type = "message"
        THEN [c EXCEPT !.history = Append(@, Event("message", None, None))]
    ELSE IF env.type = "plan"
        THEN [c EXCEPT !.plan = TRUE, !.history = Append(@, Event("message", None, None))]
    ELSE IF env.type = "ask_human"
        THEN [c EXCEPT !.history = Append(@, Event("approval_request", None, None)),
                       !.status = "waiting"]
    ELSE IF env.type = "wait"
        THEN [c EXCEPT !.history = Append(@, Event("event", None, None)),
                       !.status = "waiting"]
    ELSE IF env.type = "finish"
        THEN [c EXCEPT !.history = Append(@, Event("transition", None, None)),
                       !.status = "completed", !.result = "result"]
    ELSE [c EXCEPT !.error = "unknown_envelope_type"]

run_one_cycle(c, flags, n, tobs) ==
    LET env == c.envelope IN
    IF ~schema_valid(env) THEN [c EXCEPT !.error = "invalid_envelope"]
    ELSE IF env.type = "tool" THEN
        LET obs == ObsOf(execute_envelope_tool(flags, n, env.tool, env.args), tobs)
        IN IF SignalsApproval(obs)
           THEN [c EXCEPT !.history = Append(@, Event("approval_request", None, None)),
                          !.status = "waiting"]
           ELSE [c EXCEPT !.last_observation = obs,
                          !.history = Append(@, Event("tool_call", env.tool, obs))]
    ELSE IF env.type = "message"
        THEN [c EXCEPT !.history = Append(@, Event("message", None, None))]
    ELSE IF env.type = "plan"
        THEN [c EXCEPT !.plan = TRUE, !.history = Append(@, Event("message", None, None))]
    ELSE IF env.type = "ask_human"
        THEN [c EXCEPT !.history = Append(@, Event("approval_request", None, None)),
                       !.status = "waiting"]
    ELSE IF env.type = "wait"
        THEN [c EXCEPT !.history = Append(@, Event("event", None, None)),
                       !.status = "waiting"]
    ELSE IF env.type = "finish"
        THEN [c EXCEPT !.history = Append(@, Event("transition", None, None)),
                       !.status = "completed", !.result = "result"]
    ELSE [c EXCEPT !.error = "unknown_envelope_type"]

\* What the tool call of the cycle did (for the record of the latest execution).
ExecOf(c, flags, n) ==
    IF schema_valid(c.envelope) /\ c.envelope.type = "tool"
    THEN execute_envelope_tool(flags, n, c.envelope.tool, c.envelope.args)
    ELSE NoExec

\* The record of the latest execution: for a transport call, with its answer.
Answered(out, tobs) == IF out.kind = "call" THEN [out EXCEPT !.obs = tobs] ELSE out

\* The part of a driver step below execute_envelope_tool: the client module is
\* called under condition cond and answers tobs.
Transport(c, cond, tobs) ==
    LET out == ExecOf(c, use_flags, n_servers) IN
    /\ tobs \in Answers(out, n_servers, cond, sessions)
    /\ last_exec' = Answered(out, tobs)
    /\ last_session' = ensure_session(out, n_servers, cond, sessions)
    /\ sessions' = IF out.kind = "call"
                   THEN call_tool(out, n_servers, cond, sessions)
                   ELSE sessions

InitCtx == [envelope |-> NoEnvelope, history |-> <<>>, status |-> None,
            last_observation |-> None, error |-> None, plan |-> FALSE, result |-> None]

\* ---- runner.py __main__ : for i in range(max_cycles) -------------------
\* decide_next failed: an error event is appended and the loop ends.
RunnerDecideFails ==
    /\ driver = "runner" /\ opc = "turn" /\ cycles < MAX_CYCLES
    /\ ctx' = [ctx EXCEPT !.history = Append(@, Event("error", None, None))]
    /\ opc' = "stopped"
    /\ UNCHANGED <<driver, use_flags, n_servers, pending_tool, cycles, steps, last_exec,
                   sessions, last_session>>
    /\ UNCHANGED <<avars, lvars, tvars, gvars, rvars, svars, dvars, evars, bvars, wvars, kvars>>

RunnerCycle ==
    /\ driver = "runner" /\ opc = "turn" /\ cycles < MAX_CYCLES
    /\ steps < MaxSteps
    /\ steps' = steps + 1
    /\ \E env \in DecidedEnvelopes, cond \in Conditions, tobs \in TransportObs :
        LET c0 == [ctx EXCEPT !.envelope = env] IN
        /\ Transport(c0, cond, tobs)
        /\ IF CycleRaises(c0, use_flags, n_servers, tobs)
           THEN /\ ctx' = c0
                /\ opc' = "crashed"
                /\ cycles' = cycles
           ELSE IF CycleHangs(c0, use_flags, n_servers, tobs)
           THEN /\ ctx' = c0
                /\ opc' = "hung"
                /\ cycles' = cycles
           ELSE LET c1 == run_one_cycle(c0, use_flags, n_servers, tobs) IN
                /\ ctx' = c1
                /\ IF c1.status \in {"completed", "waiting"}
                   THEN opc' = "stopped" /\ cycles' = cycles
                   ELSE /\ cycles' = cycles + 1
                        /\ opc' = IF cycles + 1 < MAX_CYCLES THEN "turn" ELSE "stopped"
    /\ UNCHANGED <<driver, use_flags, n_servers, pending_tool>>
    /\ UNCHANGED <<avars, lvars, tvars, gvars, rvars, svars, dvars, evars, bvars, wvars, kvars>>

\* The child server process started by stdio_client exits on its own; nothing in
\* mcp_client_stdio watches it, _SESSION and _CTX stay as they are.
child_exits ==
    /\ sessions["STDIO"] = "dead"
    /\ sessions' = [sessions EXCEPT !["STDIO"] = "exited"]
    /\ UNCHANGED <<driver, use_flags, n_servers, ctx, pending_tool, cycles, steps, opc,
                   last_exec, last_session>>
    /\ UNCHANGED <<avars, lvars, tvars, gvars, rvars, svars, dvars, evars, bvars, wvars, kvars>>

\* ---- chat_cli.py : ChatCLI ---------------------------------------------
run_turn ==
    /\ driver = "chat" /\ opc = "idle"
    /\ ctx' = [ctx EXCEPT !.last_observation = "user_message"]
    /\ cycles' = 0
    /\ opc' = IF 0 < max_turn_cycles THEN "turn" ELSE "idle"
    /\ UNCHANGED <<driver, use_flags, n_servers, pending_tool, steps, last_exec,
                   sessions, last_session>>
    /\ UNCHANGED <<avars, lvars, tvars, gvars, rvars, svars, dvars, evars, bvars, wvars, kvars>>

\* step_once returns False: decide_next failed, the turn ends.
step_once_fails ==
    /\ driver = "chat" /\ opc = "turn"
    /\ opc' = "idle"
    /\ UNCHANGED <<driver, use_flags, n_servers, ctx, pending_tool, cycles, steps, last_exec,
                   sessions, last_session>>
    /\ UNCHANGED <<avars, lvars, tvars, gvars, rvars, svars, dvars, evars, bvars, wvars, kvars>>

step_once ==
    /\ driver = "chat" /\ opc = "turn"
    /\ steps < MaxSteps
    /\ steps' = steps + 1
    /\ \E env \in DecidedEnvelopes, cond \in Conditions, tobs \in TransportObs :
        LET c0 == [ctx EXCEPT !.envelope = env] IN
        /\ pending_tool' = IF env.type = "tool" THEN env ELSE NoEnvelope
        /\ Transport(c0, cond, tobs)
        /\ IF CycleRaises(c0, use_flags, n_servers, tobs)
           THEN /\ ctx' = c0
                /\ opc' = "crashed"
                /\ cycles' = cycles
           ELSE IF CycleHangs(c0, use_flags, n_servers, tobs)
           THEN /\ ctx' = c0
                /\ opc' = "hung"
                /\ cycles' = cycles
           ELSE LET c1 == run_one_cycle(c0, use_flags, n_servers, tobs) IN
                /\ ctx' = c1
                /\ IF c1.status \in {"waiting", "completed"}
                   THEN opc' = "idle" /\ cycles' = cycles
                   ELSE /\ cycles' = cycles + 1
                        /\ opc' = IF cycles + 1 < max_turn_cycles THEN "turn" ELSE "idle"
    /\ UNCHANGED <<driver, use_flags, n_servers>>
    /\ UNCHANGED <<avars, lvars, tvars, gvars, rvars, svars, dvars, evars, bvars, wvars, kvars>>

\* The envelope approve_pending(True) re-issues: the pending tool with
\* arguments["approved"] = True.
ApprovedEnvelope(p) == Env("tool", p.tool, [p.args EXCEPT !.approved = TRUE])

approve_pending ==
    /\ driver = "chat" /\ opc = "idle"
    /\ pending_tool # NoEnvelope
    /\ steps < MaxSteps
    /\ steps' = steps + 1
    /\ pending_tool' = NoEnvelope
    /\ \E approved \in BOOLEAN, cond \in Conditions, tobs \in TransportObs :
        LET env == IF approved THEN ApprovedEnvelope(pending_tool)
                   ELSE Env("message", None, NoArgs)
            c0 == [ctx EXCEPT !.envelope = env]
        IN
        /\ Transport(c0, cond, tobs)
        /\ IF CycleRaises(c0, use_flags, n_servers, tobs)
           THEN ctx' = c0 /\ opc' = "crashed"
           ELSE IF CycleHangs(c0, use_flags, n_servers, tobs)
           THEN ctx' = c0 /\ opc' = "hung"
           ELSE ctx' = run_one_cycle(c0, use_flags, n_servers, tobs) /\ opc' = opc
    /\ UNCHANGED <<driver, use_flags, n_servers, cycles>>
    /\ UNCHANGED <<avars, lvars, tvars, gvars, rvars, svars, dvars, evars, bvars, wvars, kvars>>


(***************************************************************************)
(*                    CEPHIQ LITE: envelope.py, llm.py                     *)
(***************************************************************************)
\* ENVELOPE_SCHEMA
SchemaStates == {"reply", "tool", "tools", "plan", "error", "clarify", "confirm", "reflect"}
StopReasons == {"user_reply", "task_done", "need_approval", "need_input", "error",
                "dead_end", "budget_exhausted"}

\* An envelope of the state-keyed dialect.
\*   state       : envelope["state"], None when the key is missing
\*   meta        : "ok" (a dict) | "missing" | "notdict"
\*   cont        : meta["continue"]: "true" | "false" | "missing" | "nonbool"
\*   stop_reason : meta["stop_reason"], None when missing
\*   body        : the fields the state requires: "ok" | "missing"
\*   tool        : envelope["tool"];  tools : envelope["tools"], items [tool_id, tool]
\*   confidence  : meta["confidence"]: "missing" | "null" | "ok" | "bad"
\*   rationale   : brief_rationale: "ok" | "long" (more than 220 characters)
\*   error_type  : error["error_type"]
AEnv(state, cont, stop_reason) ==
    [state |-> state, meta |-> "ok", cont |-> cont, stop_reason |-> stop_reason,
     body |-> "ok", tool |-> None, tools |-> <<>>, confidence |-> "missing",
     rationale |-> "ok", error_type |-> None]

Item(id, tool) == [tool_id |-> id, tool |-> tool]

\* final_envelope = None
NoFinal == AEnv(None, "missing", None)

\* create_error_envelope(error_message, error_type)
create_error_envelope(error_type) ==
    [AEnv("error", "false", "error") EXCEPT !.error_type = error_type]

ToolIdNames == <<"tool_0", "tool_1", "tool_2", "tool_3">>

\* normalize_envelope: meta.confidence defaults to None, missing or empty
\* tool_ids become tool_<index>.
normalize_envelope(e) ==
    [e EXCEPT
        !.confidence = IF e.meta = "ok" /\ @ = "missing" THEN "null" ELSE @,
        !.tools = IF e.state = "tools"
                  THEN [k \in DOMAIN e.tools |->
                          IF e.tools[k].tool_id \in {None, ""}
                          THEN Item(ToolIdNames[k], e.tools[k].tool)
                          ELSE e.tools[k]]
                  ELSE @]

\* validate_envelope: "valid", "invalid" (errors listed), or "raise" (meta is no
\* dict: meta.get raises AttributeError).
validate_envelope(e) ==
    IF e.state = None \/ e.meta = "missing" THEN "invalid"
    ELSE IF e.meta = "notdict" THEN "raise"
    ELSE IF /\ e.state \in SchemaStates
            /\ e.cont \in {"true", "false"}
            /\ (e.cont = "false" => e.stop_reason \in StopReasons)
            /\ (e.state # "reflect" => e.body = "ok")
            /\ (e.state = "tools" =>
                    \A k \in DOMAIN e.tools : e.tools[k].tool_id # None)
            /\ e.confidence # "bad"
            /\ e.rationale # "long"
         THEN "valid"
         ELSE "invalid"

\* What one call of the chat-completion API may give back.
\*   api_error  : the call raised;  no_json : no JSON to extract (empty text too);
\*   not_dict   : JSON that is no object (dict() of it raises);
\*   empty_list : the JSON text [] (dict([]) is the empty dict);
\*   env        : a JSON object, bare, fenced or wrapped in prose
Raw(kind, e) == [kind |-> kind, env |-> e]

\* No response yet.
NoRaw == Raw(None, NoFinal)

\* A decide that hands the normalised envelope on without validating it.
decide_unvalidated(raw) ==
    IF raw.kind = "api_error" THEN create_error_envelope("api_error")
    ELSE IF raw.kind = "no_json" THEN create_error_envelope("parse_error")
    ELSE IF raw.kind = "not_dict" THEN create_error_envelope("api_error")
    ELSE IF raw.kind = "empty_list" THEN create_error_envelope("validation_error")
    ELSE normalize_envelope(raw.env)

\* LLMClient.decide
decide(raw) ==
    IF raw.kind = "api_error" THEN create_error_envelope("api_error")
    ELSE IF raw.kind = "no_json" THEN create_error_envelope("parse_error")
    ELSE IF raw.kind = "not_dict" THEN create_error_envelope("api_error")
    ELSE IF raw.kind = "empty_list" THEN create_error_envelope("validation_error")
    ELSE LET e == normalize_envelope(raw.env)
             v == validate_envelope(e)
         IN IF v = "raise" THEN create_error_envelope("api_error")
            ELSE IF v = "invalid" THEN create_error_envelope("validation_error")
            ELSE e

max_retries == 3      \* decide_with_retry(max_retries=3)

\* A retry rule that asks again after any error envelope.
RetryNeeded_any_error(e, attempt) ==
    /\ e.state = "error"
    /\ attempt < max_retries - 1

\* decide_with_retry asks again: a validation_error with attempts left.
RetryNeeded(e, attempt) ==
    /\ e.state = "error"
    /\ e.error_type = "validation_error"
    /\ attempt < max_retries - 1

(***************************************************************************)
(*                     CEPHIQ LITE: tools.py, tags.py                      *)
(***************************************************************************)
\* ToolExecutor._normalize_tool
normalize_tool(tool) ==
    IF tool \in {"pwd", "cwd", "get_working_directory", "current_working_directory",
                 "working_directory"}
    THEN "get_cwd" ELSE tool

\* TagManager.validate_tool_access, on the union of allowed_tools of the tags
\* resolved for the principal.
validate_tool_access(tool, allowed) == allowed = {} \/ tool \in allowed

\* One observation of ToolExecutor.execute_single.
Obs(kind, success, tool, err) ==
    [kind |-> kind, success |-> success, tool |-> tool, error |-> err,
     approved |-> FALSE, ids |-> {}, results |-> {}, count |-> 0,
     all_success |-> success]

NoObs == Obs(None, FALSE, None, None)

\* The synthetic observation of an auto-approved confirm.
ApprovedObs == [Obs("single", TRUE, "user_confirmation", None) EXCEPT !.approved = TRUE]

\* What happens to the tools of one cycle: succ is the set of positions whose
\* tool succeeds, rank the order in which the worker threads complete.
Outcome(succ, rank) == [succ |-> succ, rank |-> rank]

\* ToolExecutor.execute_batch(tools, parallel=True): results[tool_id] is written
\* as the futures complete, so of several items with one tool_id the one that
\* completes last stays; count = len(results), all_success = all(success).
execute_batch(items, out) ==
    LET ids == {items[k].tool_id : k \in DOMAIN items}
        last(id) == CHOOSE k \in DOMAIN items :
                        /\ items[k].tool_id = id
                        /\ \A j \in DOMAIN items :
                              items[j].tool_id = id => out.rank[j] <= out.rank[k]
        results == {[tool_id |-> id, success |-> last(id) \in out.succ] : id \in ids}
    IN [kind |-> "multi", success |-> FALSE, tool |-> "multi_tool", error |-> None,
        approved |-> FALSE, ids |-> ids, results |-> results,
        count |-> Cardinality(results),
        all_success |-> \A r \in results : r.success]

\* The items of a batch that pass the permission check, in order.
FilterAllowed(items, allowed) ==
    SelectSeq(items, LAMBDA it : validate_tool_access(it.tool, allowed))

(***************************************************************************)
(*                          CEPHIQ LITE: agent.py                          *)
(***************************************************************************)
\* A budget check that lets the cycle count reach the limit.
check_budgets_off_by_one(used, tokens, time, cfg) ==
    /\ ~(used > cfg.max_cycles)
    /\ ~(tokens >= cfg.max_total_tokens)
    /\ ~(cfg.max_time_seconds # 0 /\ time >= cfg.max_time_seconds)

\* Agent._check_budgets (max_time_seconds = 0 stands for None)
check_budgets(used, tokens, time, cfg) ==
    /\ ~(used >= cfg.max_cycles)
    /\ ~(tokens >= cfg.max_total_tokens)
    /\ ~(cfg.max_time_seconds # 0 /\ time >= cfg.max_time_seconds)

\* get_allowed_tools(self.current_tags): the permissions in force in
\* _execute_single_tool / _execute_multi_tool.
CurrentAllowed == allowed_tools

\* Agent._execute_single_tool: the observation and the tools executed.
execute_single_tool(e, out) ==
    IF config.enable_tags = "on" /\ ~validate_tool_access(e.tool, CurrentAllowed)
    THEN [obs |-> Obs("single", FALSE, e.tool, "not_allowed"),
          ran |-> {}, recorded |-> <<>>]
    ELSE [obs |-> Obs("single", 1 \in out.succ, normalize_tool(e.tool), None),
          ran |-> {normalize_tool(e.tool)},
          recorded |-> <<"tool_result">>]

\* Agent._execute_multi_tool
execute_multi_tool(e, out) ==
    LET filtered == IF config.enable_tags = "on" THEN FilterAllowed(e.tools, CurrentAllowed)
                    ELSE e.tools
    IN IF Len(filtered) # Len(e.tools) /\ filtered = <<>>
       THEN [obs |-> Obs("multi", FALSE, "multi_tool", "no_tools_allowed"),
             ran |-> {}, recorded |-> <<>>]
       ELSE IF ~config.enable_multi_tool
       THEN [obs |-> Obs("multi", FALSE, "multi_tool", "multi_disabled"),
             ran |-> {}, recorded |-> <<>>]
       ELSE [obs |-> execute_batch(filtered, out),
             ran |-> {normalize_tool(filtered[k].tool) : k \in DOMAIN filtered},
             recorded |-> <<"tools_result">>]

\* The dispatch on envelope["state"] in Agent.run: the observation, the final
\* envelope (None when the state does not end the run), the tools run and the
\* history events recorded.
Handled(obs, fin, ran, recorded) ==
    [obs |-> obs, final |-> fin, ran |-> ran, recorded |-> recorded]

handle_state(e, prev_obs, out) ==
    IF e.state = "tool" THEN
        LET r == execute_single_tool(e, out) IN Handled(r.obs, NoFinal, r.ran, r.recorded)
    ELSE IF e.state = "tools" THEN
        LET r == execute_multi_tool(e, out) IN Handled(r.obs, NoFinal, r.ran, r.recorded)
    ELSE IF e.state = "reply" THEN Handled(prev_obs, e, {}, <<>>)
    ELSE IF e.state = "plan" THEN Handled(NoObs, NoFinal, {}, <<>>)
    ELSE IF e.state = "error" THEN Handled(prev_obs, e, {}, <<>>)
    ELSE IF e.state = "clarify" THEN
        IF config.auto_approve
        THEN Handled(prev_obs, create_error_envelope("need_input"), {}, <<>>)
        ELSE Handled(prev_obs, e, {}, <<>>)
    ELSE IF e.state = "confirm" THEN
        IF config.auto_approve
        THEN Handled(ApprovedObs, NoFinal, {}, <<>>)
        ELSE Handled(prev_obs, e, {}, <<>>)
    ELSE IF e.state = "reflect" THEN Handled(NoObs, NoFinal, {}, <<>>)
    ELSE Handled(prev_obs, create_error_envelope("invalid_state"), {}, <<>>)

\* meta.get("continue", False)
should_continue(e) == e.meta = "ok" /\ e.cont = "true"

\* A loop that stops only when the envelope asks to.
loop_breaks_on_continue_only(e, fin) == ~should_continue(e)

\* if not should_continue or final_envelope: break
loop_breaks(e, fin) == ~should_continue(e) \/ fin # NoFinal

\* success of the result dict
run_success(fin) == fin.state \notin {"error", "clarify", "confirm"}

ARecord(type, state) == [type |-> type, state |-> state]

\* The dict run() returns; returned is FALSE while there is none.
Result(fin) == [returned |-> TRUE, success |-> run_success(fin)]

NoResult == [returned |-> FALSE, success |-> FALSE]

\* ---- what the LLM may answer ---------------------------------------------
ToolEnv(tool, cont, stop_reason) ==
    [AEnv("tool", cont, stop_reason) EXCEPT !.tool = tool]

ToolsEnv(items, cont, stop_reason) ==
    [AEnv("tools", cont, stop_reason) EXCEPT !.tools = items]

ValidEnvelopes ==
    { ToolEnv("read_file", "true", None),
      ToolEnv("pwd", "true", None),
      ToolEnv("create_file", "false", "dead_end"),
      ToolsEnv(<<Item("a", "read_file"), Item("b", "create_file")>>, "true", None),
      ToolsEnv(<<Item("a", "pwd"), Item(None, "create_file")>>, "true", None),
      ToolsEnv(<<Item("tool_1", "read_file"), Item(None, "create_file")>>, "true", None),
      ToolsEnv(<<>>, "true", None),
      ToolsEnv(<<Item("a", "read_file"), Item("b", "pwd"), Item("c", "create_file")>>,
               "false", "task_done"),
      AEnv("reply", "false", "user_reply"),
      AEnv("reply", "true", None),
      AEnv("reply", "false", "dead_end"),
      AEnv("plan", "true", None),
      AEnv("plan", "false", "task_done"),
      AEnv("reflect", "true", None),
      [AEnv("error", "false", "error") EXCEPT !.error_type = "llm_reported"],
      [AEnv("error", "false", "error") EXCEPT !.error_type = "validation_error"],
      AEnv("clarify", "false", "need_input"),
      AEnv("clarify", "true", None),
      AEnv("confirm", "false", "need_approval"),
      AEnv("confirm", "true", None) }

InvalidEnvelopes ==
    { AEnv("finish", "false", "task_done"),
      AEnv(None, "true", None),
      [AEnv("reply", "missing", None) EXCEPT !.meta = "missing"],
      [AEnv("reply", "missing", None) EXCEPT !.meta = "notdict"],
      AEnv("plan", "missing", None),
      AEnv("plan", "nonbool", None),
      AEnv("reply", "false", None),
      AEnv("reply", "false", "finished"),
      [AEnv("reply", "false", "user_reply") EXCEPT !.body = "missing"],
      [AEnv("reply", "false", "user_reply") EXCEPT !.confidence = "bad"],
      [AEnv("reply", "false", "user_reply") EXCEPT !.rationale = "long"] }

MaxBatch == 2          \* members of the largest batch the LLM emits

LLMResponses ==
    {Raw("api_error", NoFinal), Raw("no_json", NoFinal), Raw("not_dict", NoFinal),
     Raw("empty_list", NoFinal)}
        \cup {Raw("env", e) : e \in {v \in ValidEnvelopes \cup InvalidEnvelopes :
                                        Len(v.tools) <= MaxBatch}}

\* ---- Agent.run ------------------------------------------------------------
\* run(): start_time, tag resolution, last_observation = final_envelope = None
Run ==
    /\ pc \in {"idle", "done"}
    /\ runs < MaxRuns
    /\ config.enable_tags # "unset"
    /\ runs' = runs + 1
    /\ elapsed' = 0
    /\ tags_resolved' = (tags_resolved \/ config.enable_tags = "on")
    /\ allowed_tools' = IF config.enable_tags = "on" THEN tag_allowed ELSE allowed_tools
    /\ last_observation' = NoObs
    /\ final_envelope' = NoFinal
    /\ envelope' = NoFinal
    /\ result' = NoResult
    /\ executed' = {}
    /\ llm_calls' = 0
    /\ pc' = "check"
    /\ UNCHANGED <<config, tag_allowed, history, cycles_used, tokens_used>>
    /\ UNCHANGED <<ovars, lvars, tvars, gvars, rvars, svars, dvars, evars, bvars, wvars, kvars>>

\* run() on a config object without the enable_tags attribute (AgentConfig
\* declares none): self.config.enable_tags raises AttributeError.
RunRaises ==
    /\ pc \in {"idle", "done", "raised"}
    /\ runs < MaxRuns
    /\ config.enable_tags = "unset"
    /\ runs' = runs + 1
    /\ elapsed' = 0
    /\ result' = NoResult
    /\ pc' = "raised"
    /\ UNCHANGED <<config, tag_allowed, allowed_tools, tags_resolved, history, cycles_used,
                   tokens_used, last_observation, final_envelope, envelope, executed,
                   llm_calls>>
    /\ UNCHANGED <<ovars, lvars, tvars, gvars, rvars, svars, dvars, evars, bvars, wvars, kvars>>

\* The clock advances while the loop runs (it is read only when
\* max_time_seconds is set).
Tick ==
    /\ pc = "check"
    /\ config.max_time_seconds # 0
    /\ elapsed < config.max_time_seconds
    /\ elapsed' = elapsed + 1
    /\ UNCHANGED <<config, tag_allowed, allowed_tools, tags_resolved, history, cycles_used,
                   tokens_used, last_observation, final_envelope, envelope, result,
                   executed, llm_calls, runs, pc>>
    /\ UNCHANGED <<ovars, lvars, tvars, gvars, rvars, svars, dvars, evars, bvars, wvars, kvars>>

\* if not self._check_budgets(): final_envelope = create_error_envelope(...); break
BudgetExhausted ==
    /\ pc = "check"
    /\ ~check_budgets(cycles_used, tokens_used, elapsed, config)
    /\ final_envelope' = create_error_envelope("budget_exhausted")
    /\ result' = Result(final_envelope')
    /\ pc' = "done"
    /\ UNCHANGED <<config, tag_allowed, allowed_tools, tags_resolved, history, cycles_used,
                   tokens_used, elapsed, last_observation, envelope, executed, llm_calls,
                   runs>>
    /\ UNCHANGED <<ovars, lvars, tvars, gvars, rvars, svars, dvars, evars, bvars, wvars, kvars>>

\* The completion orders of the worker threads of a batch of n tools.
Ranks(n) == {r \in [1..n -> 1..n] : \A i, j \in 1..n : r[i] = r[j] => i = j}

\* The tool outcomes that can follow envelope e (one outcome where no tool runs).
\* The completion order shows only where two members share a tool_id.
Outcomes(e) ==
    IF e.state = "tools"
    THEN LET n == Len(e.tools)
             shared == \E i, j \in 1..n : i # j /\ e.tools[i].tool_id = e.tools[j].tool_id
         IN {Outcome(succ, rank) :
                succ \in SUBSET (1..n),
                rank \in IF shared THEN Ranks(n) ELSE {[k \in 1..n |-> k]}}
    ELSE {Outcome(succ, <<1>>) : succ \in IF e.state = "tool" THEN {{}, {1}} ELSE {{}}}

\* The cycle from the decided envelope on: cycles_used += 1, _record_decision,
\* the dispatch on the state, the break test, and the result when the loop ends.
RestOfCycle(e, out) ==
    LET h == handle_state(e, last_observation, out)
    IN /\ envelope' = e
       /\ cycles_used' = cycles_used + 1
       /\ history' = Append(history, ARecord("decision", e.state))
                        \o [k \in DOMAIN h.recorded |-> ARecord(h.recorded[k], e.state)]
       /\ last_observation' = h.obs
       /\ executed' = h.ran
       /\ IF loop_breaks(e, h.final)
          THEN /\ final_envelope' = IF h.final # NoFinal THEN h.final ELSE e
               /\ result' = Result(final_envelope')
               /\ pc' = "done"
               /\ llm_calls' = llm_calls + 1
          ELSE /\ pc' = "check"
               /\ llm_calls' = 0
               /\ UNCHANGED <<final_envelope, result>>

\* One chat-completion call of decide_with_retry and what follows it: the next
\* attempt, or the rest of the cycle.
LLMCall(raw) ==
    LET e == decide(raw)
    IN IF RetryNeeded(e, llm_calls)
       THEN /\ llm_calls' = llm_calls + 1
            /\ pc' = "retry"
            /\ UNCHANGED <<history, cycles_used, last_observation, final_envelope, envelope,
                           result, executed>>
       ELSE \E out \in Outcomes(e) : RestOfCycle(e, out)

\* The budgets hold: build the prompt and ask the LLM (first attempt).
Cycle ==
    /\ pc = "check"
    /\ check_budgets(cycles_used, tokens_used, elapsed, config)
    /\ \E raw \in LLMResponses : LLMCall(raw)
    /\ UNCHANGED <<config, tag_allowed, allowed_tools, tags_resolved, tokens_used, elapsed,
                   runs>>
    /\ UNCHANGED <<ovars, lvars, tvars, gvars, rvars, svars, dvars, evars, bvars, wvars, kvars>>

\* decide_with_retry asks again after a validation_error.
Retry ==
    /\ pc = "retry"
    /\ \E raw \in LLMResponses : LLMCall(raw)
    /\ UNCHANGED <<config, tag_allowed, allowed_tools, tags_resolved, tokens_used, elapsed,
                   runs>>
    /\ UNCHANGED <<ovars, lvars, tvars, gvars, rvars, svars, dvars, evars, bvars, wvars, kvars>>

(***************************************************************************)
(*           ORCHESTRATOR: decide_next.py, _auto_repair_envelope           *)
(***************************************************************************)
\* An envelope of the state-keyed dialect, as the dict the model's JSON parses
\* to.  A scalar key that is absent has the value Missing, one the model wrote
\* has the value Given; has is the set of the object-valued keys that are
\* present, and an object that is not in has keeps all its fields Missing.
Missing == "missing"
Given == "given"

\* valid_states, the list at the end of _auto_repair_envelope.
valid_states ==
    {"message", "tool", "plan", "finish", "ask_human", "wait", "handoff",
     "reflect", "error"}

\* The states of the envelope contract: the union of the two dialects.
ContractStates == valid_states \cup {"reply", "tools", "clarify", "confirm"}

NoMeta ==
    [continue |-> Missing, stop_reason |-> Missing, goal_update |-> Missing,
     todo_update |-> Missing]

BareEnvelope ==
    [state |-> Missing, brief_rationale |-> Missing, envelope_id |-> Missing,
     timestamp |-> Missing, tool |-> Missing, arguments |-> Missing,
     tools |-> Missing, reason |-> Missing, has |-> {},
     conversation |-> [utterance |-> Missing],
     plan |-> [root_task |-> Missing, steps |-> Missing],
     wait |-> [event_type |-> Missing],
     finish |-> [summary |-> Missing],
     handoff |-> [to_agent |-> Missing, message |-> Missing],
     reflect |-> [analysis |-> Missing],
     error |-> [error_type |-> Missing, error_message |-> Missing],
     clarify |-> [question |-> Missing],
     confirm |-> [action |-> Missing],
     meta |-> NoMeta]

\* The sub-object a state requires, None when it requires none.
ObjectOf(state) ==
    IF state \in {"message", "reply"} THEN "conversation"
    ELSE IF state \in {"plan", "wait", "finish", "handoff", "reflect", "error",
                       "clarify", "confirm"} THEN state
    ELSE None

\* validate_envelope(envelope, envelope_schema_path): the per-state contract.
\* Every envelope has state, brief_rationale and a meta object with a boolean
\* continue (and a stop_reason when continue is false); each state has its
\* sub-object with its required fields.
validate_state_envelope(e) ==
    /\ e.state \in ContractStates
    /\ e.brief_rationale # Missing
    /\ "meta" \in e.has
    /\ e.meta.continue \in {"true", "false"}
    /\ e.meta.continue = "false" => e.meta.stop_reason # Missing
    /\ e.meta.goal_update \in {Missing, "dict"}
    /\ e.meta.todo_update \in {Missing, "dict"}
    /\ e.state = "tool" => (e.tool # Missing /\ e.arguments # Missing)
    /\ e.state = "tools" => e.tools # Missing
    /\ ObjectOf(e.state) # None =>
          /\ ObjectOf(e.state) \in e.has
          /\ \A f \in DOMAIN e[ObjectOf(e.state)] : e[ObjectOf(e.state)][f] # Missing

\* if "x" not in repaired: repaired["x"] = whole
\* else: every absent field of repaired["x"] gets its own placeholder.
RepairObject(r, name, whole, fields) ==
    IF name \notin r.has
    THEN [r EXCEPT !.has = @ \cup {name}, ![name] = whole]
    ELSE [r EXCEPT ![name] =
             [f \in DOMAIN @ |-> IF @[f] = Missing THEN fields[f] ELSE @[f]]]

\* The block under `if "meta" in repaired`.
RepairMeta(r) ==
    [r EXCEPT
       !.meta.goal_update = IF @ \notin {Missing, "dict"} THEN "dict" ELSE @,
       !.meta.todo_update = IF @ \notin {Missing, "dict"} THEN "dict" ELSE @,
       !.meta.continue = IF @ \notin {Missing, "true", "false"} THEN "true" ELSE @]

\* The chain that starts with `if "meta" in repaired` and goes on with
\* `elif state == "plan"` ... `elif state == "error"`: the branches for the
\* states are alternatives of the meta block.
RepairByState(r, state) ==
    IF "meta" \in r.has THEN RepairMeta(r)
    ELSE IF state = "plan" THEN
        RepairObject(r, "plan",
                     [root_task |-> "Auto-generated plan", steps |-> "[]"],
                     [root_task |-> "Auto-generated task", steps |-> "[]"])
    ELSE IF state = "ask_human" THEN
        [r EXCEPT !.reason = IF @ = Missing THEN "Auto-generated reason" ELSE @]
    ELSE IF state = "wait" THEN
        RepairObject(r, "wait", [event_type |-> "timeout"], [event_type |-> "timeout"])
    ELSE IF state = "finish" THEN
        RepairObject(r, "finish", [summary |-> "Auto-generated summary"],
                     [summary |-> "Auto-generated summary"])
    ELSE IF state = "handoff" THEN
        RepairObject(r, "handoff",
                     [to_agent |-> "unknown", message |-> "Auto-generated handoff"],
                     [to_agent |-> "unknown", message |-> "Auto-generated handoff"])
    ELSE IF state = "reflect" THEN
        RepairObject(r, "reflect", [analysis |-> "Auto-generated analysis"],
                     [analysis |-> "Auto-generated analysis"])
    ELSE IF state = "error" THEN
        RepairObject(r, "error",
                     [error_type |-> "unknown", error_message |-> "Auto-generated error"],
                     [error_type |-> "unknown", error_message |-> "Auto-generated error"])
    ELSE r

\* The chain `if state == "tool"` / `elif state == "message"`.
RepairToolOrMessage(r, state) ==
    IF state = "tool" THEN
        LET t == IF r.tool = Missing
                 THEN [r EXCEPT !.state = "error",
                                !.has = @ \cup {"error"},
                                !.error = [error_type |-> "missing_tool_name",
                                           error_message |-> "Tool state requires a valid tool name"]]
                 ELSE r
        IN  [t EXCEPT !.arguments = IF @ = Missing THEN "{}" ELSE @]
    ELSE IF state = "message" THEN
        RepairObject(r, "conversation", [utterance |-> "Auto-generated message"],
                     [utterance |-> "Auto-generated message"])
    ELSE r

\* _auto_repair_envelope(envelope).  The local `state` is read once, after the
\* four common fields, and is not read again when the tool branch changes
\* repaired["state"]; the last test reads repaired["state"].
_auto_repair_envelope(e) ==
    LET common == [e EXCEPT
              !.state = IF @ = Missing THEN "error" ELSE @,
              !.brief_rationale =
                  IF @ = Missing THEN "Auto-generated rationale" ELSE @,
              !.envelope_id = IF @ = Missing THEN "uuid4" ELSE @,
              !.timestamp = IF @ = Missing THEN "utcnow" ELSE @]
        state == common.state
        repaired == RepairByState(RepairToolOrMessage(common, state), state)
    IN  IF repaired.state \notin valid_states
        THEN [repaired EXCEPT
                !.state = "error",
                !.has = @ \cup {"error"},
                !.error = IF "error" \notin repaired.has
                          THEN [error_type |-> "invalid_state",
                                error_message |-> "Original state was invalid"]
                          ELSE @]
        ELSE repaired

\* The dicts the model may answer with: every state of the contract, no state
\* and an unknown one; the state's own part absent, partly or wholly there; an
\* error object beside it; with and without meta, rationale, id and timestamp.
RawEnvelopes ==
    LET RawStates == ContractStates \cup {Missing, "bogus"}
        Metas == [continue : {Missing, "true", "false", "nonbool"},
                  stop_reason : {Missing, Given},
                  goal_update : {Missing, "dict", "nondict"},
                  todo_update : {Missing, "nondict"}]
        Bodies(state) ==
            LET base == [BareEnvelope EXCEPT !.state = state]
            IN  IF state = "tool"
                THEN {[base EXCEPT !.tool = t, !.arguments = a] :
                         t \in {Missing, Given}, a \in {Missing, Given}}
                ELSE IF state = "tools"
                THEN {[base EXCEPT !.tools = t] : t \in {Missing, Given}}
                ELSE IF state = "ask_human"
                THEN {[base EXCEPT !.reason = x] : x \in {Missing, Given}}
                ELSE IF ObjectOf(state) # None
                THEN {base} \cup
                     {[base EXCEPT !.has = {ObjectOf(state)}, ![ObjectOf(state)] = sh] :
                         sh \in [DOMAIN base[ObjectOf(state)] -> {Missing, Given}]}
                ELSE {base}
        WithError(e) ==
            IF e.state \in {"tool", "bogus", Missing}
            THEN {e, [e EXCEPT !.has = @ \cup {"error"},
                               !.error = [error_type |-> Given, error_message |-> Given]]}
            ELSE {e}
        WithMeta(e) ==
            {e} \cup {[e EXCEPT !.has = @ \cup {"meta"}, !.meta = m] : m \in Metas}
    IN  UNION {UNION {UNION {
            {[m EXCEPT !.brief_rationale = x, !.envelope_id = i, !.timestamp = i] :
                x \in {Missing, Given}, i \in {Missing, Given}}
            : m \in WithMeta(w)} : w \in WithError(b)} : b \in UNION {Bodies(st) : st \in RawStates}}

(***************************************************************************)
(*                     CEPHIQ LITE: tags.py, TagManager                    *)
(***************************************************************************)
MaxTags == 4          \* tags in the store of one TagManager

\* TagKind, in the order of its members.
TagKind == <<"company", "function", "role", "flow", "tool", "guardrail">>

\* Tag(tag, kind, TagPayload(meta, TagConfig(...), content)).
Tag(name, kind, users, roles, org, tools, priority, content) ==
    [tag |-> name, kind |-> kind, assigned_users |-> users, assigned_roles |-> roles,
     org_scope |-> org, allowed_tools |-> tools, priority |-> priority,
     content |-> content]

\* _load_default_tags: company_cephiq for every user, role_agent for the role agent.
DefaultTags ==
    << Tag("company_cephiq", "company", {"*"}, {}, "", {}, 0, "You are Cephiq Lite"),
       Tag("role_agent", "role", {}, {"agent"}, "", {}, 0, "You are an autonomous AI agent") >>

\* The tags callers hand to add_tag.
TagPool ==
    { DefaultTags[1], DefaultTags[2],
      Tag("role_agent", "role", {}, {"admin"}, "", {"bash"}, 7, "You are an administrator"),
      Tag("company_b", "company", {}, {}, "", {}, 5, "Company B rules"),
      Tag("tool_read", "tool", {"u1"}, {}, "", {"read_file"}, 5, "read_file reads a file"),
      Tag("guard_acme", "guardrail", {}, {"agent", "admin"}, "acme", {"pwd", "read_file"}, 5,
          "Never leave the workspace"),
      Tag("flow_x", "flow", {"u2", "*"}, {}, "", {}, 0, "Flow x"),
      Tag("function_f", "function", {"u2"}, {"admin"}, "", {"pwd"}, 9, "Function f") }

\* The tools validate_tool_access is asked about.
ToolUniverse == {"read_file", "pwd", "bash", "create_file"}

Principal(user_id, user_roles, org_id) ==
    [user_id |-> user_id, user_roles |-> user_roles, org_id |-> org_id]
NoPrincipal == Principal(None, {}, None)
Principals ==
    {Principal(u, r, o) : u \in {"u1", "u2"}, r \in {{}, {"agent"}, {"admin"}},
                          o \in {"", "acme"}}

\* The three tests of the loop of resolve_tags_for_user (a failed test is a continue).
TagApplies(t, p) ==
    /\ ~(t.assigned_users # {} /\ p.user_id \notin t.assigned_users
                               /\ "*" \notin t.assigned_users)
    /\ ~(t.assigned_roles # {} /\ (t.assigned_roles \cap p.user_roles) = {})
    /\ ~(t.org_scope # "" /\ t.org_scope # p.org_id)

\* applicable_tags after the loop: the tags of the store that apply, in store order.
RECURSIVE ApplicableTags(_, _)
ApplicableTags(store, p) ==
    IF store = <<>> THEN <<>>
    ELSE (IF TagApplies(Head(store), p) THEN <<Head(store)>> ELSE <<>>)
             \o ApplicableTags(Tail(store), p)

\* list.sort(key = priority, reverse = True) is stable: a tag goes behind every
\* tag of the same or a higher priority that stood before it.
RECURSIVE InsertByPriority(_, _)
InsertByPriority(sorted, t) ==
    IF sorted = <<>> THEN <<t>>
    ELSE IF Head(sorted).priority >= t.priority
        THEN <<Head(sorted)>> \o InsertByPriority(Tail(sorted), t)
    ELSE <<t>> \o sorted

RECURSIVE SortByPriority(_, _)
SortByPriority(sorted, rest) ==
    IF rest = <<>> THEN sorted
    ELSE SortByPriority(InsertByPriority(sorted, Head(rest)), Tail(rest))

\* A resolver that would not know the "*" entry of assigned_users.
resolve_tags_for_user_no_wildcard(store, p) ==
    SortByPriority(<<>>, ApplicableTags(store, [p EXCEPT !.user_id = "*"]))

resolve_tags_for_user(store, p) == SortByPriority(<<>>, ApplicableTags(store, p))

\* A get_allowed_tools that would take the tools of the first tag only.
get_allowed_tools_of_first(ts) ==
    IF ts = <<>> THEN {} ELSE ts[1].allowed_tools

get_allowed_tools(ts) == UNION {ts[i].allowed_tools : i \in DOMAIN ts}

\* The section headers of build_system_prompt, by kind; all but the first begin
\* with a newline.
SectionHeader(kind) ==
    IF kind = "company" THEN "=== COMPANY CONTEXT ==="
    ELSE IF kind = "function" THEN "\\n=== FUNCTION CONTEXT ==="
    ELSE IF kind = "role" THEN "\\n=== ROLE CONTEXT ==="
    ELSE IF kind = "flow" THEN "\\n=== FLOW CONTEXT ==="
    ELSE IF kind = "tool" THEN "\\n=== TOOLS AVAILABLE ==="
    ELSE "\\n=== GUARDRAILS ==="

\* sections[kind]: the contents of the tags of one kind, in the order of the list.
RECURSIVE SectionOf(_, _)
SectionOf(ts, kind) ==
    IF ts = <<>> THEN <<>>
    ELSE (IF Head(ts).kind = kind THEN <<Head(ts).content>> ELSE <<>>)
             \o SectionOf(Tail(ts), kind)

\* One "if kind in sections" block of build_system_prompt.
SectionPart(ts, kind) ==
    IF SectionOf(ts, kind) = <<>> THEN <<>>
    ELSE <<SectionHeader(kind)>> \o SectionOf(ts, kind)

\* A prompt builder that would put the tools before the flow.
build_system_prompt_tool_first(ts) ==
    SectionPart(ts, "company") \o SectionPart(ts, "function") \o SectionPart(ts, "role")
        \o SectionPart(ts, "tool") \o SectionPart(ts, "flow")
        \o SectionPart(ts, "guardrail")

build_system_prompt(ts) ==
    SectionPart(ts, "company") \o SectionPart(ts, "function") \o SectionPart(ts, "role")
        \o SectionPart(ts, "flow") \o SectionPart(ts, "tool")
        \o SectionPart(ts, "guardrail")

\* The position of the tag named name in the store, 0 when it is not there.
StorePos(store, name) ==
    IF \E i \in DOMAIN store : store[i].tag = name
    THEN CHOOSE i \in DOMAIN store : store[i].tag = name
    ELSE 0

\* add_tag: self.tags[tag.tag] = tag; a known name keeps its place in the dict.
add_tag ==
    /\ \E t \in TagPool :
        LET i == StorePos(tags, t.tag) IN
        /\ i = 0 => Len(tags) < MaxTags
        /\ tags' = IF i = 0 THEN Append(tags, t) ELSE [tags EXCEPT ![i] = t]
        /\ tags' # tags
    /\ principal' = NoPrincipal
    /\ resolved' = <<>>
    /\ granted' = {}
    /\ access' = {}
    /\ prompt' = <<>>
    /\ UNCHANGED <<ovars, avars, lvars, tvars, rvars, svars, dvars, evars, bvars, wvars, kvars>>

\* remove_tag of a name that is in the store.
remove_tag ==
    /\ \E i \in DOMAIN tags :
        tags' = SubSeq(tags, 1, i - 1) \o SubSeq(tags, i + 1, Len(tags))
    /\ principal' = NoPrincipal
    /\ resolved' = <<>>
    /\ granted' = {}
    /\ access' = {}
    /\ prompt' = <<>>
    /\ UNCHANGED <<ovars, avars, lvars, tvars, rvars, svars, dvars, evars, bvars, wvars, kvars>>

\* What Agent.run and PromptBuilder do with the TagManager for one principal:
\* resolve the tags, take their allowed tools, build the system prompt; and the
\* answers of validate_tool_access for the resolved tags.
resolve_tags ==
    /\ \E p \in Principals :
        LET ts == resolve_tags_for_user(tags, p) IN
        /\ principal' = p
        /\ resolved' = ts
        /\ granted' = get_allowed_tools(ts)
        /\ access' = {t \in ToolUniverse : validate_tool_access(t, get_allowed_tools(ts))}
        /\ prompt' = build_system_prompt(ts)
    /\ UNCHANGED tags
    /\ UNCHANGED <<ovars, avars, lvars, tvars, rvars, svars, dvars, evars, bvars, wvars, kvars>>

InitTags ==
    /\ tags = DefaultTags
    /\ principal = NoPrincipal
    /\ resolved = <<>>
    /\ granted = {}
    /\ access = {}
    /\ prompt = <<>>
    \* the orchestrator is at rest
    /\ driver = "chat"
    /\ use_flags = {"STDIO"}
    /\ n_servers = 0
    /\ ctx = InitCtx
    /\ pending_tool = NoEnvelope
    /\ cycles = 0
    /\ steps = 0
    /\ opc = "idle"
    /\ last_exec = NoExec
    /\ sessions = NoSessions
    /\ last_session = NoSession
    \* the Agent is at rest
    /\ config = [max_cycles |-> 1, max_total_tokens |-> 1, max_time_seconds |-> 0,
                 auto_approve |-> FALSE, enable_multi_tool |-> TRUE, enable_tags |-> "off"]
    /\ tag_allowed = {}
    /\ allowed_tools = {}
    /\ tags_resolved = FALSE
    /\ history = <<>>
    /\ cycles_used = 0
    /\ tokens_used = 0
    /\ elapsed = 0
    /\ last_observation = NoObs
    /\ final_envelope = NoFinal
    /\ envelope = NoFinal
    /\ result = NoResult
    /\ executed = {}
    /\ llm_calls = 0
    /\ runs = 0
    /\ pc = "idle"
    \* no decide_with_retry call is observed on its own
    /\ response = NoRaw
    /\ decided = NoFinal
    /\ attempts = 0
    /\ prompt_errors = 0
    /\ decisions = 0
    /\ lpc = "idle"
    \* no turn of the enhanced chat CLI is under way
    /\ esc_pressed = FALSE
    /\ cancelled = FALSE
    /\ env_continue = TRUE
    \* no dict is under repair
    /\ parsed = BareEnvelope
    /\ auto_repaired = BareEnvelope
    /\ applications = 0
    \* no SSE connection is open
    /\ messages_url = None
    /\ messages_ready = FALSE
    /\ outbound = <<>>
    /\ early = 0
    /\ posts = <<>>
    /\ inbound = 0
    /\ events_seen = 0
    /\ reader_pc = "none"
    /\ sender_pc = "none"
    \* no decide_next call is under way
    /\ dn_max_retries = 0
    /\ dn_max_repairs = 0
    /\ dn_attempt = 0
    /\ dn_repairs = 0
    /\ dn_calls = 0
    /\ dn_envelope = BareEnvelope
    /\ dn_result = [success |-> FALSE, envelope |-> BareEnvelope]
    /\ dn_pc = "idle"
    \* no _ensure_session call is under way
    /\ es_pc = [c \in {1, 2} |-> "idle"]
    /\ es_tries = [c \in {1, 2} |-> 0]
    /\ es_got = [c \in {1, 2} |-> 0]
    /\ es_cache = 0
    /\ es_created = 0
    /\ es_initialized = {}
    \* no batch is being executed
    /\ bt_parallel = FALSE
    /\ bt_size = 0
    /\ bt_submitted = 0
    /\ bt_state = <<>>
    /\ bt_results = {}
    /\ bt_pc = "running"
    \* no workflow was started
    /\ workflow_states = <<>>
    /\ wf_called = [op |-> "none", id |-> 0]
    /\ wf_returned = "none"
    \* no goal or todo update was handled
    /\ goal = "CLI Chat Session"
    /\ todo_list = <<>>
    /\ td_call = [action |-> "none", item |-> [id |-> "none", status |-> "missing"]]

NextTags ==
    \/ add_tag
    \/ remove_tag
    \/ resolve_tags

SpecTags == InitTags /\ [][NextTags]_vars


\* _decide_next_attempt hands the parsed dict to _auto_repair_envelope, and on a
\* failed repair call hands it the result once more.
MaxApplications == 2

auto_repair ==
    /\ applications < MaxApplications
    /\ auto_repaired' =
          _auto_repair_envelope(IF applications = 0 THEN parsed ELSE auto_repaired)
    /\ applications' = applications + 1
    /\ UNCHANGED parsed
    /\ UNCHANGED <<ovars, avars, lvars, tvars, gvars, svars, dvars, evars, bvars, wvars, kvars>>

InitRepair ==
    /\ parsed \in RawEnvelopes
    /\ auto_repaired = BareEnvelope
    /\ applications = 0
    \* the orchestrator is at rest
    /\ driver = "chat"
    /\ use_flags = {"STDIO"}
    /\ n_servers = 0
    /\ ctx = InitCtx
    /\ pending_tool = NoEnvelope
    /\ cycles = 0
    /\ steps = 0
    /\ opc = "idle"
    /\ last_exec = NoExec
    /\ sessions = NoSessions
    /\ last_session = NoSession
    \* no SSE connection is open
    /\ messages_url = None
    /\ messages_ready = FALSE
    /\ outbound = <<>>
    /\ early = 0
    /\ posts = <<>>
    /\ inbound = 0
    /\ events_seen = 0
    /\ reader_pc = "none"
    /\ sender_pc = "none"
    \* no decide_next call is under way
    /\ dn_max_retries = 0
    /\ dn_max_repairs = 0
    /\ dn_attempt = 0
    /\ dn_repairs = 0
    /\ dn_calls = 0
    /\ dn_envelope = BareEnvelope
    /\ dn_result = [success |-> FALSE, envelope |-> BareEnvelope]
    /\ dn_pc = "idle"
    \* no _ensure_session call is under way
    /\ es_pc = [c \in {1, 2} |-> "idle"]
    /\ es_tries = [c \in {1, 2} |-> 0]
    /\ es_got = [c \in {1, 2} |-> 0]
    /\ es_cache = 0
    /\ es_created = 0
    /\ es_initialized = {}
    \* no batch is being executed
    /\ bt_parallel = FALSE
    /\ bt_size = 0
    /\ bt_submitted = 0
    /\ bt_state = <<>>
    /\ bt_results = {}
    /\ bt_pc = "running"
    \* no workflow was started
    /\ workflow_states = <<>>
    /\ wf_called = [op |-> "none", id |-> 0]
    /\ wf_returned = "none"
    \* no goal or todo update was handled
    /\ goal = "CLI Chat Session"
    /\ todo_list = <<>>
    /\ td_call = [action |-> "none", item |-> [id |-> "none", status |-> "missing"]]

    \* the Agent is at rest
    /\ config = [max_cycles |-> 1, max_total_tokens |-> 1, max_time_seconds |-> 0,
                 auto_approve |-> FALSE, enable_multi_tool |-> TRUE, enable_tags |-> "off"]
    /\ tag_allowed = {}
    /\ allowed_tools = {}
    /\ tags_resolved = FALSE
    /\ history = <<>>
    /\ cycles_used = 0
    /\ tokens_used = 0
    /\ elapsed = 0
    /\ last_observation = NoObs
    /\ final_envelope = NoFinal
    /\ envelope = NoFinal
    /\ result = NoResult
    /\ executed = {}
    /\ llm_calls = 0
    /\ runs = 0
    /\ pc = "idle"

    \* no decide_with_retry call is observed on its own
    /\ response = NoRaw
    /\ decided = NoFinal
    /\ attempts = 0
    /\ prompt_errors = 0
    /\ decisions = 0
    /\ lpc = "idle"

    \* no turn of the enhanced chat CLI is under way
    /\ esc_pressed = FALSE
    /\ cancelled = FALSE
    /\ env_continue = TRUE

    \* the TagManager holds its two default tags, nothing was resolved
    /\ tags = DefaultTags
    /\ principal = NoPrincipal
    /\ resolved = <<>>
    /\ granted = {}
    /\ access = {}
    /\ prompt = <<>>

NextRepair ==
    \/ auto_repair

SpecRepair == InitRepair /\ [][NextRepair]_vars


(***************************************************************************)
(*          ORCHESTRATOR: mcp_client_sse.py, the SSE bridge                *)
(***************************************************************************)
MaxMessages == 2      \* messages the session writes on one connection
MaxEvents == 2        \* SSE events read on one connection

\* The SSE events the server may send: event.event and event.data.
SSEEvents ==
    {[event |-> "endpoint", data |-> d] :
        d \in {"", "/messages/?session_id=1", "/messages/?session_id=2\n",
               "http://other/messages"}}
    \cup {[event |-> "message", data |-> d] : d \in {"", "json", "not json"}}

\* event.data.strip()
strip(data) ==
    IF data = "/messages/?session_id=2\n" THEN "/messages/?session_id=2" ELSE data

\* urljoin(base_origin, messages_url) with "timeout=30" added to the query; the
\* SSE URL is http://host/sse.
full_url(url) ==
    IF url = "/messages/?session_id=1" THEN "http://host/messages/?session_id=1&timeout=30"
    ELSE IF url = "/messages/?session_id=2" THEN "http://host/messages/?session_id=2&timeout=30"
    ELSE IF url = "http://other/messages" THEN "http://other/messages?timeout=30"
    ELSE "http://host?timeout=30"

\* ClientSession (initialize, call_tool) writes a message to the outbound stream.
session_writes ==
    /\ reader_pc # "none"
    /\ Len(outbound) + Len(posts) < MaxMessages
    /\ \E m \in {"initialize", "notifications/initialized", "tools/call"} :
          outbound' = Append(outbound, m)
    /\ early' = IF messages_ready THEN early ELSE early + 1
    /\ UNCHANGED <<messages_url, messages_ready, posts, inbound, events_seen, reader_pc,
                   sender_pc>>
    /\ UNCHANGED <<ovars, avars, lvars, tvars, gvars, rvars, dvars, evars, bvars, wvars, kvars>>

\* One turn of `async for event in event_source.aiter_sse()` in process_events.
process_event ==
    /\ reader_pc = "reading"
    /\ events_seen < MaxEvents
    /\ events_seen' = events_seen + 1
    /\ \E ev \in SSEEvents :
          IF ev.event = "endpoint" /\ ev.data # ""
          THEN /\ messages_url' = strip(ev.data)
               /\ messages_ready' = TRUE
               /\ UNCHANGED inbound
          ELSE /\ inbound' = IF ev.data = "json" /\ ev.event # "endpoint"
                             THEN inbound + 1 ELSE inbound
               /\ UNCHANGED <<messages_url, messages_ready>>
    /\ UNCHANGED <<outbound, early, posts, reader_pc, sender_pc>>
    /\ UNCHANGED <<ovars, avars, lvars, tvars, gvars, rvars, dvars, evars, bvars, wvars, kvars>>

\* The event stream ends, or raises: then the error message is put on the
\* inbound stream.
process_events_ends ==
    /\ reader_pc = "reading"
    /\ \E raised \in BOOLEAN :
          /\ reader_pc' = IF raised THEN "failed" ELSE "ended"
          /\ inbound' = IF raised THEN inbound + 1 ELSE inbound
    /\ UNCHANGED <<messages_url, messages_ready, outbound, early, posts, events_seen,
                   sender_pc>>
    /\ UNCHANGED <<ovars, avars, lvars, tvars, gvars, rvars, dvars, evars, bvars, wvars, kvars>>

\* A sender that would not wait for the endpoint event.
sender_wakes_at_once ==
    /\ sender_pc = "waiting"
    /\ sender_pc' = "sending"
    /\ UNCHANGED <<messages_url, messages_ready, outbound, early, posts, inbound,
                   events_seen, reader_pc>>
    /\ UNCHANGED <<ovars, avars, lvars, tvars, gvars, rvars, dvars, evars, bvars, wvars, kvars>>

\* message_sender returns from `await messages_ready.wait()`; the assert that
\* follows ends the task when it fails.
sender_wakes ==
    /\ sender_pc = "waiting"
    /\ messages_ready
    /\ sender_pc' = IF messages_url = None THEN "ended" ELSE "sending"
    /\ UNCHANGED <<messages_url, messages_ready, outbound, early, posts, inbound,
                   events_seen, reader_pc>>
    /\ UNCHANGED <<ovars, avars, lvars, tvars, gvars, rvars, dvars, evars, bvars, wvars, kvars>>

\* One turn of `async for message in server_from_client_stream`: the POST of
\* the oldest message; client.post answers 202 or another status, or raises,
\* and an exception ends the task.
post_message ==
    /\ sender_pc = "sending"
    /\ outbound # <<>>
    /\ \E status \in {"202", "500", "raised"} :
          /\ posts' = Append(posts, [message |-> Head(outbound),
                                     url |-> full_url(messages_url),
                                     status |-> status])
          /\ sender_pc' = IF status = "raised" THEN "ended" ELSE "sending"
    /\ outbound' = Tail(outbound)
    /\ UNCHANGED <<messages_url, messages_ready, early, inbound, events_seen, reader_pc>>
    /\ UNCHANGED <<ovars, avars, lvars, tvars, gvars, rvars, dvars, evars, bvars, wvars, kvars>>

\* asyncio.run(call_tool_async(...)) returns and closes its loop: both tasks
\* are cancelled.
loop_closed ==
    /\ reader_pc # "none"
    /\ reader_pc = "reading" \/ sender_pc # "ended"
    /\ reader_pc' = IF reader_pc = "failed" THEN "failed" ELSE "ended"
    /\ sender_pc' = "ended"
    /\ UNCHANGED <<messages_url, messages_ready, outbound, early, posts, inbound,
                   events_seen>>
    /\ UNCHANGED <<ovars, avars, lvars, tvars, gvars, rvars, dvars, evars, bvars, wvars, kvars>>

\* _ensure_session after both create_task calls of one attempt.
InitSSE ==
    /\ messages_url = None
    /\ messages_ready = FALSE
    /\ outbound = <<>>
    /\ early = 0
    /\ posts = <<>>
    /\ inbound = 0
    /\ events_seen = 0
    /\ reader_pc = "reading"
    /\ sender_pc = "waiting"
    \* the orchestrator is at rest
    /\ driver = "chat"
    /\ use_flags = {"STDIO"}
    /\ n_servers = 0
    /\ ctx = InitCtx
    /\ pending_tool = NoEnvelope
    /\ cycles = 0
    /\ steps = 0
    /\ opc = "idle"
    /\ last_exec = NoExec
    /\ sessions = NoSessions
    /\ last_session = NoSession
    \* no decide_next call is under way
    /\ dn_max_retries = 0
    /\ dn_max_repairs = 0
    /\ dn_attempt = 0
    /\ dn_repairs = 0
    /\ dn_calls = 0
    /\ dn_envelope = BareEnvelope
    /\ dn_result = [success |-> FALSE, envelope |-> BareEnvelope]
    /\ dn_pc = "idle"
    \* no _ensure_session call is under way
    /\ es_pc = [c \in {1, 2} |-> "idle"]
    /\ es_tries = [c \in {1, 2} |-> 0]
    /\ es_got = [c \in {1, 2} |-> 0]
    /\ es_cache = 0
    /\ es_created = 0
    /\ es_initialized = {}
    \* no batch is being executed
    /\ bt_parallel = FALSE
    /\ bt_size = 0
    /\ bt_submitted = 0
    /\ bt_state = <<>>
    /\ bt_results = {}
    /\ bt_pc = "running"
    \* no workflow was started
    /\ workflow_states = <<>>
    /\ wf_called = [op |-> "none", id |-> 0]
    /\ wf_returned = "none"
    \* no goal or todo update was handled
    /\ goal = "CLI Chat Session"
    /\ todo_list = <<>>
    /\ td_call = [action |-> "none", item |-> [id |-> "none", status |-> "missing"]]

    \* the Agent is at rest
    /\ config = [max_cycles |-> 1, max_total_tokens |-> 1, max_time_seconds |-> 0,
                 auto_approve |-> FALSE, enable_multi_tool |-> TRUE, enable_tags |-> "off"]
    /\ tag_allowed = {}
    /\ allowed_tools = {}
    /\ tags_resolved = FALSE
    /\ history = <<>>
    /\ cycles_used = 0
    /\ tokens_used = 0
    /\ elapsed = 0
    /\ last_observation = NoObs
    /\ final_envelope = NoFinal
    /\ envelope = NoFinal
    /\ result = NoResult
    /\ executed = {}
    /\ llm_calls = 0
    /\ runs = 0
    /\ pc = "idle"

    \* no decide_with_retry call is observed on its own
    /\ response = NoRaw
    /\ decided = NoFinal
    /\ attempts = 0
    /\ prompt_errors = 0
    /\ decisions = 0
    /\ lpc = "idle"

    \* no turn of the enhanced chat CLI is under way
    /\ esc_pressed = FALSE
    /\ cancelled = FALSE
    /\ env_continue = TRUE

    \* the TagManager holds its two default tags, nothing was resolved
    /\ tags = DefaultTags
    /\ principal = NoPrincipal
    /\ resolved = <<>>
    /\ granted = {}
    /\ access = {}
    /\ prompt = <<>>

    \* no dict is under repair
    /\ parsed = BareEnvelope
    /\ auto_repaired = BareEnvelope
    /\ applications = 0

NextSSE ==
    \/ session_writes
    \/ process_event
    \/ process_events_ends
    \/ sender_wakes
    \/ post_message
    \/ loop_closed

SpecSSE == InitSSE /\ [][NextSSE]_vars

\* The event loop runs a task that can go on: message_sender is resumed when
\* messages_ready is set and when a message is in the stream.  Nothing makes
\* the server send an event, the session write a message or the loop close.
SpecSSEFair == SpecSSE /\ WF_vars(sender_wakes) /\ WF_vars(post_message)


(***************************************************************************)
(*       ORCHESTRATOR: decide_next.py, decide_next and its attempts        *)
(***************************************************************************)
MaxRetries == 3       \* largest max_retries explored (the default is 3)
MaxRepairs == 2       \* largest max_repairs explored (the default is 2)

\* Dicts the model may answer with: one that validates, one that validates
\* after _auto_repair_envelope, two that do not.
DictPool ==
    {[BareEnvelope EXCEPT !.state = "message", !.brief_rationale = Given,
                          !.envelope_id = Given, !.timestamp = Given,
                          !.has = {"conversation", "meta"},
                          !.conversation = [utterance |-> Given],
                          !.meta = [NoMeta EXCEPT !.continue = "true"]],
     [BareEnvelope EXCEPT !.state = "message", !.has = {"meta"},
                          !.meta = [NoMeta EXCEPT !.continue = "nonbool"]],
     [BareEnvelope EXCEPT !.state = "plan", !.brief_rationale = Given,
                          !.has = {"meta"},
                          !.meta = [NoMeta EXCEPT !.continue = "true"]],
     [BareEnvelope EXCEPT !.state = "tool", !.tool = Given]}

\* What _call_openai_json / _call_anthropic_json give back, or that the attempt
\* raises: (False, "... SDK not installed ..."), (False, another message),
\* an exception, an exception whose text holds "import" or "module",
\* (True, dict).
LLMAnswers ==
    {[kind |-> k, env |-> BareEnvelope] :
        k \in {"failed", "sdk_missing", "raises", "raises_import"}}
    \cup {[kind |-> "dict", env |-> d] : d \in DictPool}

\* The two fallback_envelope dicts: error_type validation_failure in
\* _decide_next_attempt, generation_failure in decide_next.
fallback_envelope(error_type) ==
    [BareEnvelope EXCEPT !.state = "error", !.brief_rationale = Given,
                         !.envelope_id = Given, !.timestamp = Given,
                         !.has = {"error"},
                         !.error = [error_type |-> error_type, error_message |-> Given]]

Position(p, a, r, e, res) ==
    [pc |-> p, attempt |-> a, repairs |-> r, envelope |-> e, result |-> res]

\* `return True, env` in _decide_next_attempt: decide_next returns it at once.
Returns(env, reps) ==
    Position("returned", dn_attempt, reps, env, [success |-> TRUE, envelope |-> env])

\* The attempt returned False or raised: decide_next goes on with the next
\* attempt, unless this was the last one or the error stops the loop; then it
\* returns its own fallback envelope.
AttemptFails(stop) ==
    IF stop \/ dn_attempt >= dn_max_retries
    THEN Position("returned", dn_attempt, dn_repairs, dn_envelope,
                  [success |-> TRUE, envelope |-> fallback_envelope("generation_failure")])
    ELSE Position("attempt", dn_attempt + 1, 0, BareEnvelope, dn_result)

\* The test of `while not valid and repairs < max_repairs` on an envelope
\* that does not validate, and the `if not valid` after the loop.
StillInvalid(env, reps) ==
    IF reps < dn_max_repairs
    THEN Position("repair", dn_attempt, reps, env, dn_result)
    ELSE Returns(fallback_envelope("validation_failure"), reps)

\* _decide_next_attempt up to its loop.
FirstCall(a) ==
    IF a.kind \in {"failed", "raises"} THEN AttemptFails(FALSE)
    ELSE IF a.kind \in {"sdk_missing", "raises_import"} THEN AttemptFails(TRUE)
    ELSE IF validate_state_envelope(a.env) THEN Returns(a.env, 0)
    ELSE IF validate_state_envelope(_auto_repair_envelope(a.env))
         THEN Returns(_auto_repair_envelope(a.env), 0)
         ELSE StillInvalid(_auto_repair_envelope(a.env), 0)

\* One turn of the repair loop of _decide_next_attempt.
RepairCall(a) ==
    IF a.kind \in {"raises", "raises_import"} THEN AttemptFails(a.kind = "raises_import")
    ELSE IF a.kind \in {"failed", "sdk_missing"}
    THEN IF validate_state_envelope(_auto_repair_envelope(dn_envelope))
         THEN Returns(_auto_repair_envelope(dn_envelope), dn_repairs)
         ELSE AttemptFails(a.kind = "sdk_missing")
    ELSE LET env == IF validate_state_envelope(a.env) THEN a.env
                    ELSE _auto_repair_envelope(a.env)
         IN  IF validate_state_envelope(env) THEN Returns(env, dn_repairs + 1)
             ELSE StillInvalid(env, dn_repairs + 1)

MoveTo(pos) ==
    /\ dn_pc' = pos.pc
    /\ dn_attempt' = pos.attempt
    /\ dn_repairs' = pos.repairs
    /\ dn_envelope' = pos.envelope
    /\ dn_result' = pos.result

\* decide_next is called.
decide_next_called ==
    /\ dn_pc = "idle"
    /\ dn_pc' = "attempt"
    /\ UNCHANGED <<dn_max_retries, dn_max_repairs, dn_attempt, dn_repairs, dn_calls,
                   dn_envelope, dn_result>>
    /\ UNCHANGED <<ovars, avars, lvars, tvars, gvars, rvars, svars, evars, bvars, wvars, kvars>>

\* The first model call of an attempt and what follows it up to the next call.
attempt_call ==
    /\ dn_pc = "attempt"
    /\ dn_calls' = dn_calls + 1
    /\ \E a \in LLMAnswers : MoveTo(FirstCall(a))
    /\ UNCHANGED <<dn_max_retries, dn_max_repairs>>
    /\ UNCHANGED <<ovars, avars, lvars, tvars, gvars, rvars, svars, evars, bvars, wvars, kvars>>

\* A repair call of an attempt and what follows it up to the next call.
repair_call ==
    /\ dn_pc = "repair"
    /\ dn_calls' = dn_calls + 1
    /\ \E a \in LLMAnswers : MoveTo(RepairCall(a))
    /\ UNCHANGED <<dn_max_retries, dn_max_repairs>>
    /\ UNCHANGED <<ovars, avars, lvars, tvars, gvars, rvars, svars, evars, bvars, wvars, kvars>>

InitDecide ==
    /\ dn_max_retries \in 0..MaxRetries
    /\ dn_max_repairs \in 0..MaxRepairs
    /\ dn_attempt = 0
    /\ dn_repairs = 0
    /\ dn_calls = 0
    /\ dn_envelope = BareEnvelope
    /\ dn_result = [success |-> FALSE, envelope |-> BareEnvelope]
    /\ dn_pc = "idle"
    \* the orchestrator is at rest
    /\ driver = "chat"
    /\ use_flags = {"STDIO"}
    /\ n_servers = 0
    /\ ctx = InitCtx
    /\ pending_tool = NoEnvelope
    /\ cycles = 0
    /\ steps = 0
    /\ opc = "idle"
    /\ last_exec = NoExec
    /\ sessions = NoSessions
    /\ last_session = NoSession
    \* no _ensure_session call is under way
    /\ es_pc = [c \in {1, 2} |-> "idle"]
    /\ es_tries = [c \in {1, 2} |-> 0]
    /\ es_got = [c \in {1, 2} |-> 0]
    /\ es_cache = 0
    /\ es_created = 0
    /\ es_initialized = {}
    \* no batch is being executed
    /\ bt_parallel = FALSE
    /\ bt_size = 0
    /\ bt_submitted = 0
    /\ bt_state = <<>>
    /\ bt_results = {}
    /\ bt_pc = "running"
    \* no workflow was started
    /\ workflow_states = <<>>
    /\ wf_called = [op |-> "none", id |-> 0]
    /\ wf_returned = "none"
    \* no goal or todo update was handled
    /\ goal = "CLI Chat Session"
    /\ todo_list = <<>>
    /\ td_call = [action |-> "none", item |-> [id |-> "none", status |-> "missing"]]

    \* the Agent is at rest
    /\ config = [max_cycles |-> 1, max_total_tokens |-> 1, max_time_seconds |-> 0,
                 auto_approve |-> FALSE, enable_multi_tool |-> TRUE, enable_tags |-> "off"]
    /\ tag_allowed = {}
    /\ allowed_tools = {}
    /\ tags_resolved = FALSE
    /\ history = <<>>
    /\ cycles_used = 0
    /\ tokens_used = 0
    /\ elapsed = 0
    /\ last_observation = NoObs
    /\ final_envelope = NoFinal
    /\ envelope = NoFinal
    /\ result = NoResult
    /\ executed = {}
    /\ llm_calls = 0
    /\ runs = 0
    /\ pc = "idle"

    \* no decide_with_retry call is observed on its own
    /\ response = NoRaw
    /\ decided = NoFinal
    /\ attempts = 0
    /\ prompt_errors = 0
    /\ decisions = 0
    /\ lpc = "idle"

    \* no turn of the enhanced chat CLI is under way
    /\ esc_pressed = FALSE
    /\ cancelled = FALSE
    /\ env_continue = TRUE

    \* the TagManager holds its two default tags, nothing was resolved
    /\ tags = DefaultTags
    /\ principal = NoPrincipal
    /\ resolved = <<>>
    /\ granted = {}
    /\ access = {}
    /\ prompt = <<>>

    \* no dict is under repair
    /\ parsed = BareEnvelope
    /\ auto_repaired = BareEnvelope
    /\ applications = 0

    \* no SSE connection is open
    /\ messages_url = None
    /\ messages_ready = FALSE
    /\ outbound = <<>>
    /\ early = 0
    /\ posts = <<>>
    /\ inbound = 0
    /\ events_seen = 0
    /\ reader_pc = "none"
    /\ sender_pc = "none"

NextDecide ==
    \/ decide_next_called
    \/ attempt_call
    \/ repair_call

SpecDecide == InitDecide /\ [][NextDecide]_vars


(***************************************************************************)
(*     ORCHESTRATOR: mcp_client_sse.py, _ensure_session called at once     *)
(***************************************************************************)
MaxCallers == 2       \* coroutines that call _ensure_session for the URL
RetryDelays == 4      \* len(delays)

Callers == 1..MaxCallers

\* _ensure_session up to its retry loop: the look into _SESSIONS.
ensure_session_begins ==
    \E c \in Callers :
        /\ es_pc[c] = "idle"
        /\ es_pc' = [es_pc EXCEPT ![c] = IF es_cache # 0 THEN "returned" ELSE "connecting"]
        /\ es_got' = [es_got EXCEPT ![c] = es_cache]
        /\ UNCHANGED <<es_tries, es_cache, es_created, es_initialized>>
        /\ UNCHANGED <<ovars, avars, lvars, tvars, gvars, rvars, svars, dvars, bvars, wvars, kvars>>

\* One turn of the retry loop: the streams, the two tasks and the
\* ClientSession are created and initialize() is awaited; on success the
\* session is stored and returned, on failure the turn sleeps and the loop
\* goes on, and after the last delay RuntimeError is raised.
connect_attempt ==
    \E c \in Callers, ok \in BOOLEAN :
        /\ es_pc[c] = "connecting"
        /\ es_created' = es_created + 1
        /\ es_tries' = [es_tries EXCEPT ![c] = @ + 1]
        /\ IF ok
           THEN /\ es_initialized' = es_initialized \cup {es_created'}
                /\ es_cache' = es_created'
                /\ es_got' = [es_got EXCEPT ![c] = es_created']
                /\ es_pc' = [es_pc EXCEPT ![c] = "returned"]
           ELSE /\ es_pc' = [es_pc EXCEPT ![c] =
                                IF es_tries[c] + 1 >= RetryDelays THEN "raised"
                                ELSE "connecting"]
                /\ UNCHANGED <<es_initialized, es_cache, es_got>>
        /\ UNCHANGED <<ovars, avars, lvars, tvars, gvars, rvars, svars, dvars, bvars, wvars, kvars>>

InitEnsure ==
    /\ es_pc = [c \in Callers |-> "idle"]
    /\ es_tries = [c \in Callers |-> 0]
    /\ es_got = [c \in Callers |-> 0]
    /\ es_cache = 0
    /\ es_created = 0
    /\ es_initialized = {}
    \* the orchestrator is at rest
    /\ driver = "chat"
    /\ use_flags = {"STDIO"}
    /\ n_servers = 0
    /\ ctx = InitCtx
    /\ pending_tool = NoEnvelope
    /\ cycles = 0
    /\ steps = 0
    /\ opc = "idle"
    /\ last_exec = NoExec
    /\ sessions = NoSessions
    /\ last_session = NoSession
    \* no batch is being executed
    /\ bt_parallel = FALSE
    /\ bt_size = 0
    /\ bt_submitted = 0
    /\ bt_state = <<>>
    /\ bt_results = {}
    /\ bt_pc = "running"
    \* no workflow was started
    /\ workflow_states = <<>>
    /\ wf_called = [op |-> "none", id |-> 0]
    /\ wf_returned = "none"
    \* no goal or todo update was handled
    /\ goal = "CLI Chat Session"
    /\ todo_list = <<>>
    /\ td_call = [action |-> "none", item |-> [id |-> "none", status |-> "missing"]]

    \* the Agent is at rest
    /\ config = [max_cycles |-> 1, max_total_tokens |-> 1, max_time_seconds |-> 0,
                 auto_approve |-> FALSE, enable_multi_tool |-> TRUE, enable_tags |-> "off"]
    /\ tag_allowed = {}
    /\ allowed_tools = {}
    /\ tags_resolved = FALSE
    /\ history = <<>>
    /\ cycles_used = 0
    /\ tokens_used = 0
    /\ elapsed = 0
    /\ last_observation = NoObs
    /\ final_envelope = NoFinal
    /\ envelope = NoFinal
    /\ result = NoResult
    /\ executed = {}
    /\ llm_calls = 0
    /\ runs = 0
    /\ pc = "idle"

    \* no decide_with_retry call is observed on its own
    /\ response = NoRaw
    /\ decided = NoFinal
    /\ attempts = 0
    /\ prompt_errors = 0
    /\ decisions = 0
    /\ lpc = "idle"

    \* no turn of the enhanced chat CLI is under way
    /\ esc_pressed = FALSE
    /\ cancelled = FALSE
    /\ env_continue = TRUE

    \* the TagManager holds its two default tags, nothing was resolved
    /\ tags = DefaultTags
    /\ principal = NoPrincipal
    /\ resolved = <<>>
    /\ granted = {}
    /\ access = {}
    /\ prompt = <<>>

    \* no dict is under repair
    /\ parsed = BareEnvelope
    /\ auto_repaired = BareEnvelope
    /\ applications = 0

    \* no SSE connection is open
    /\ messages_url = None
    /\ messages_ready = FALSE
    /\ outbound = <<>>
    /\ early = 0
    /\ posts = <<>>
    /\ inbound = 0
    /\ events_seen = 0
    /\ reader_pc = "none"
    /\ sender_pc = "none"

    \* no decide_next call is under way
    /\ dn_max_retries = 0
    /\ dn_max_repairs = 0
    /\ dn_attempt = 0
    /\ dn_repairs = 0
    /\ dn_calls = 0
    /\ dn_envelope = BareEnvelope
    /\ dn_result = [success |-> FALSE, envelope |-> BareEnvelope]
    /\ dn_pc = "idle"

NextEnsure ==
    \/ ensure_session_begins
    \/ connect_attempt

SpecEnsure == InitEnsure /\ [][NextEnsure]_vars


\* ---------------------------------------------------------------------------
\* CEPHIQ LITE: tools.py, ToolExecutor.execute_batch seen thread by thread
\* ---------------------------------------------------------------------------

MaxMembers == 6        \* members of the largest batch handed to execute_batch

\* ThreadPoolExecutor(max_workers=5)
max_workers == 5

\* the members a worker thread of the pool is executing
Executing == {m \in 1..bt_size : bt_state[m] = "running"}

\* executor.submit(self.execute_single, ...) in the dict comprehension: the
\* members are queued in the order of the tools list
submit ==
    /\ bt_pc = "running" /\ bt_parallel
    /\ bt_submitted < bt_size
    /\ bt_submitted' = bt_submitted + 1
    /\ bt_state' = [bt_state EXCEPT ![bt_submitted + 1] = "queued"]
    /\ UNCHANGED <<bt_parallel, bt_size, bt_results, bt_pc>>
    /\ UNCHANGED <<ovars, avars, lvars, tvars, gvars, rvars, svars, dvars, evars, wvars, kvars>>

\* a worker of the pool takes the oldest queued member; the pool never has more
\* than max_workers threads and each runs one member at a time
worker_takes_whenever ==
    \E m \in 1..bt_size :
        /\ bt_state[m] = "queued"
        /\ \A k \in 1..(m - 1) : bt_state[k] # "queued"
        /\ bt_state' = [bt_state EXCEPT ![m] = "running"]
        /\ UNCHANGED <<bt_parallel, bt_size, bt_submitted, bt_results, bt_pc>>
        /\ UNCHANGED <<ovars, avars, lvars, tvars, gvars, rvars, svars, dvars, evars, wvars, kvars>>

worker_takes ==
    \E m \in 1..bt_size :
        /\ bt_state[m] = "queued"
        /\ \A k \in 1..(m - 1) : bt_state[k] # "queued"
        /\ Cardinality(Executing) < max_workers
        /\ bt_state' = [bt_state EXCEPT ![m] = "running"]
        /\ UNCHANGED <<bt_parallel, bt_size, bt_submitted, bt_results, bt_pc>>
        /\ UNCHANGED <<ovars, avars, lvars, tvars, gvars, rvars, svars, dvars, evars, wvars, kvars>>

\* execute_single returns in the worker: a result with success true, or the
\* failure result built by its except clause; the future is done
worker_finishes ==
    \E m \in 1..bt_size, success \in BOOLEAN :
        /\ bt_state[m] = "running"
        /\ bt_state' = [bt_state EXCEPT ![m] = IF success THEN "ok" ELSE "failed"]
        /\ UNCHANGED <<bt_parallel, bt_size, bt_submitted, bt_results, bt_pc>>
        /\ UNCHANGED <<ovars, avars, lvars, tvars, gvars, rvars, svars, dvars, evars, wvars, kvars>>

\* for future in as_completed(...): results[tool_id] = future.result(); the loop
\* starts once every member is submitted and yields the done futures
as_completed_yields ==
    \E m \in 1..bt_size :
        /\ bt_pc = "running" /\ bt_parallel
        /\ bt_submitted = bt_size
        /\ bt_state[m] \in {"ok", "failed"}
        /\ m \notin bt_results
        /\ bt_results' = bt_results \cup {m}
        /\ UNCHANGED <<bt_parallel, bt_size, bt_submitted, bt_state, bt_pc>>
        /\ UNCHANGED <<ovars, avars, lvars, tvars, gvars, rvars, svars, dvars, evars, wvars, kvars>>

\* the else branch: each member is executed in turn by the calling thread
execute_in_turn ==
    \E success \in BOOLEAN :
        /\ bt_pc = "running" /\ ~bt_parallel
        /\ bt_submitted < bt_size
        /\ bt_submitted' = bt_submitted + 1
        /\ bt_state' = [bt_state EXCEPT ![bt_submitted + 1] = IF success THEN "ok" ELSE "failed"]
        /\ bt_results' = bt_results \cup {bt_submitted + 1}
        /\ UNCHANGED <<bt_parallel, bt_size, bt_pc>>
        /\ UNCHANGED <<ovars, avars, lvars, tvars, gvars, rvars, svars, dvars, evars, wvars, kvars>>

\* the loop over the futures (or over the tools) is exhausted, the with block
\* is left and the summary is returned
batch_returns ==
    /\ bt_pc = "running"
    /\ bt_submitted = bt_size
    /\ bt_results = 1..bt_size
    /\ bt_pc' = "returned"
    /\ UNCHANGED <<bt_parallel, bt_size, bt_submitted, bt_state, bt_results>>
    /\ UNCHANGED <<ovars, avars, lvars, tvars, gvars, rvars, svars, dvars, evars, wvars, kvars>>

InitBatch ==
    /\ bt_parallel \in BOOLEAN
    /\ bt_size \in 0..MaxMembers
    /\ bt_submitted = 0
    /\ bt_state = [m \in 1..bt_size |-> "new"]
    /\ bt_results = {}
    /\ bt_pc = "running"
    \* the orchestrator is at rest
    /\ driver = "chat"
    /\ use_flags = {"STDIO"}
    /\ n_servers = 0
    /\ ctx = InitCtx
    /\ pending_tool = NoEnvelope
    /\ cycles = 0
    /\ steps = 0
    /\ opc = "idle"
    /\ last_exec = NoExec
    /\ sessions = NoSessions
    /\ last_session = NoSession
    \* no workflow was started
    /\ workflow_states = <<>>
    /\ wf_called = [op |-> "none", id |-> 0]
    /\ wf_returned = "none"
    \* no goal or todo update was handled
    /\ goal = "CLI Chat Session"
    /\ todo_list = <<>>
    /\ td_call = [action |-> "none", item |-> [id |-> "none", status |-> "missing"]]

    \* the Agent is at rest
    /\ config = [max_cycles |-> 1, max_total_tokens |-> 1, max_time_seconds |-> 0,
                 auto_approve |-> FALSE, enable_multi_tool |-> TRUE, enable_tags |-> "off"]
    /\ tag_allowed = {}
    /\ allowed_tools = {}
    /\ tags_resolved = FALSE
    /\ history = <<>>
    /\ cycles_used = 0
    /\ tokens_used = 0
    /\ elapsed = 0
    /\ last_observation = NoObs
    /\ final_envelope = NoFinal
    /\ envelope = NoFinal
    /\ result = NoResult
    /\ executed = {}
    /\ llm_calls = 0
    /\ runs = 0
    /\ pc = "idle"

    \* no decide_with_retry call is observed on its own
    /\ response = NoRaw
    /\ decided = NoFinal
    /\ attempts = 0
    /\ prompt_errors = 0
    /\ decisions = 0
    /\ lpc = "idle"

    \* no turn of the enhanced chat CLI is under way
    /\ esc_pressed = FALSE
    /\ cancelled = FALSE
    /\ env_continue = TRUE

    \* the TagManager holds its two default tags, nothing was resolved
    /\ tags = DefaultTags
    /\ principal = NoPrincipal
    /\ resolved = <<>>
    /\ granted = {}
    /\ access = {}
    /\ prompt = <<>>

    \* no dict is under repair
    /\ parsed = BareEnvelope
    /\ auto_repaired = BareEnvelope
    /\ applications = 0

    \* no SSE connection is open
    /\ messages_url = None
    /\ messages_ready = FALSE
    /\ outbound = <<>>
    /\ early = 0
    /\ posts = <<>>
    /\ inbound = 0
    /\ events_seen = 0
    /\ reader_pc = "none"
    /\ sender_pc = "none"

    \* no decide_next call is under way
    /\ dn_max_retries = 0
    /\ dn_max_repairs = 0
    /\ dn_attempt = 0
    /\ dn_repairs = 0
    /\ dn_calls = 0
    /\ dn_envelope = BareEnvelope
    /\ dn_result = [success |-> FALSE, envelope |-> BareEnvelope]
    /\ dn_pc = "idle"

    \* no _ensure_session call is under way
    /\ es_pc = [c \in {1, 2} |-> "idle"]
    /\ es_tries = [c \in {1, 2} |-> 0]
    /\ es_got = [c \in {1, 2} |-> 0]
    /\ es_cache = 0
    /\ es_created = 0
    /\ es_initialized = {}

NextBatch ==
    \/ submit
    \/ worker_takes
    \/ worker_finishes
    \/ as_completed_yields
    \/ execute_in_turn
    \/ batch_returns

SpecBatch == InitBatch /\ [][NextBatch]_vars

\* ---------------------------------------------------------------------------
\* ORCHESTRATOR: combined_mcp_server.py, the workflow tools
\* ---------------------------------------------------------------------------

MaxWorkflows == 2      \* start_workflow calls that create a workflow
MaxTemplateSteps == 3  \* steps of the longest loaded template

\* workflow_templates: template id -> len(template["steps"]); the loader asks
\* for the field "steps" and accepts a list of any length, the empty one too
workflow_templates == [t \in 0..MaxTemplateSteps |-> t]

\* start_workflow(template_id); template MaxTemplateSteps + 1 is not loaded
start_workflow ==
    \E template_id \in 0..(MaxTemplateSteps + 1) :
        /\ Len(workflow_states) < MaxWorkflows
        /\ wf_called' = [op |-> "start", id |-> Len(workflow_states) + 1]
        /\ IF template_id \notin DOMAIN workflow_templates
           THEN /\ wf_returned' = "error"
                /\ UNCHANGED workflow_states
           ELSE /\ workflow_states' = Append(workflow_states,
                      [template_id |-> template_id,
                       current_step |-> 1,
                       total_steps |-> workflow_templates[template_id],
                       status |-> "active",
                       step_results |-> {}])
                \* template["steps"][0] of an empty list raises IndexError
                /\ wf_returned' = IF workflow_templates[template_id] = 0 THEN "raised"
                                  ELSE "started"
        /\ UNCHANGED <<ovars, avars, lvars, tvars, gvars, rvars, svars, dvars, evars, bvars, kvars>>

\* continue_workflow(workflow_id, step_result)
continue_workflow ==
    \E workflow_id \in 1..MaxWorkflows, step_result \in {"none", "empty", "data"} :
        /\ wf_called' = [op |-> "continue", id |-> workflow_id]
        /\ IF workflow_id \notin DOMAIN workflow_states
           THEN /\ wf_returned' = "error"
                /\ UNCHANGED workflow_states
           ELSE LET state == workflow_states[workflow_id]
                    stored == IF step_result = "data"
                              THEN state.step_results \cup {state.current_step}
                              ELSE state.step_results
                    next_step_num == state.current_step + 1
                IN  IF state.status # "active"
                    THEN /\ wf_returned' = "error"
                         /\ UNCHANGED workflow_states
                    ELSE IF next_step_num > state.total_steps
                    THEN /\ workflow_states' = [workflow_states EXCEPT ![workflow_id] =
                              [state EXCEPT !.step_results = stored, !.status = "completed"]]
                         /\ wf_returned' = "completed"
                    ELSE /\ workflow_states' = [workflow_states EXCEPT ![workflow_id] =
                              [state EXCEPT !.step_results = stored,
                                            !.current_step = next_step_num]]
                         /\ wf_returned' = "continuing"
        /\ UNCHANGED <<ovars, avars, lvars, tvars, gvars, rvars, svars, dvars, evars, bvars, kvars>>

\* get_workflow_status(workflow_id): reads the state
get_workflow_status ==
    \E workflow_id \in 1..MaxWorkflows :
        /\ wf_called' = [op |-> "status", id |-> workflow_id]
        /\ wf_returned' = IF workflow_id \notin DOMAIN workflow_states THEN "error"
                          ELSE workflow_states[workflow_id].status
        /\ UNCHANGED workflow_states
        /\ UNCHANGED <<ovars, avars, lvars, tvars, gvars, rvars, svars, dvars, evars, bvars, kvars>>

InitWorkflow ==
    /\ workflow_states = <<>>
    /\ wf_called = [op |-> "none", id |-> 0]
    /\ wf_returned = "none"
    \* the orchestrator is at rest
    /\ driver = "chat"
    /\ use_flags = {"STDIO"}
    /\ n_servers = 0
    /\ ctx = InitCtx
    /\ pending_tool = NoEnvelope
    /\ cycles = 0
    /\ steps = 0
    /\ opc = "idle"
    /\ last_exec = NoExec
    /\ sessions = NoSessions
    /\ last_session = NoSession
    \* no goal or todo update was handled
    /\ goal = "CLI Chat Session"
    /\ todo_list = <<>>
    /\ td_call = [action |-> "none", item |-> [id |-> "none", status |-> "missing"]]

    \* the Agent is at rest
    /\ config = [max_cycles |-> 1, max_total_tokens |-> 1, max_time_seconds |-> 0,
                 auto_approve |-> FALSE, enable_multi_tool |-> TRUE, enable_tags |-> "off"]
    /\ tag_allowed = {}
    /\ allowed_tools = {}
    /\ tags_resolved = FALSE
    /\ history = <<>>
    /\ cycles_used = 0
    /\ tokens_used = 0
    /\ elapsed = 0
    /\ last_observation = NoObs
    /\ final_envelope = NoFinal
    /\ envelope = NoFinal
    /\ result = NoResult
    /\ executed = {}
    /\ llm_calls = 0
    /\ runs = 0
    /\ pc = "idle"

    \* no decide_with_retry call is observed on its own
    /\ response = NoRaw
    /\ decided = NoFinal
    /\ attempts = 0
    /\ prompt_errors = 0
    /\ decisions = 0
    /\ lpc = "idle"

    \* no turn of the enhanced chat CLI is under way
    /\ esc_pressed = FALSE
    /\ cancelled = FALSE
    /\ env_continue = TRUE

    \* the TagManager holds its two default tags, nothing was resolved
    /\ tags = DefaultTags
    /\ principal = NoPrincipal
    /\ resolved = <<>>
    /\ granted = {}
    /\ access = {}
    /\ prompt = <<>>

    \* no dict is under repair
    /\ parsed = BareEnvelope
    /\ auto_repaired = BareEnvelope
    /\ applications = 0

    \* no SSE connection is open
    /\ messages_url = None
    /\ messages_ready = FALSE
    /\ outbound = <<>>
    /\ early = 0
    /\ posts = <<>>
    /\ inbound = 0
    /\ events_seen = 0
    /\ reader_pc = "none"
    /\ sender_pc = "none"

    \* no decide_next call is under way
    /\ dn_max_retries = 0
    /\ dn_max_repairs = 0
    /\ dn_attempt = 0
    /\ dn_repairs = 0
    /\ dn_calls = 0
    /\ dn_envelope = BareEnvelope
    /\ dn_result = [success |-> FALSE, envelope |-> BareEnvelope]
    /\ dn_pc = "idle"

    \* no _ensure_session call is under way
    /\ es_pc = [c \in {1, 2} |-> "idle"]
    /\ es_tries = [c \in {1, 2} |-> 0]
    /\ es_got = [c \in {1, 2} |-> 0]
    /\ es_cache = 0
    /\ es_created = 0
    /\ es_initialized = {}

    \* no batch is being executed
    /\ bt_parallel = FALSE
    /\ bt_size = 0
    /\ bt_submitted = 0
    /\ bt_state = <<>>
    /\ bt_results = {}
    /\ bt_pc = "running"

NextWorkflow ==
    \/ start_workflow
    \/ continue_workflow
    \/ get_workflow_status

SpecWorkflow == InitWorkflow /\ [][NextWorkflow]_vars

\* ---------------------------------------------------------------------------
\* ORCHESTRATOR: chat_cli_enhanced.py, _handle_goal_todo_updates
\* ---------------------------------------------------------------------------

MaxTodos == 2          \* todos the list may hold

\* f"todo_{n}"
TodoName(n) == <<"todo_1", "todo_2", "todo_3", "todo_4", "todo_5", "todo_6">>[n]

\* ids a todo_update may name: the generated form and a free one
TodoIds == {TodoName(n) : n \in 1..MaxTodos} \cup {"a"}

\* the "todo" dict of a todo_update; status stands for the fields other than
\* id, which the handler treats alike. A key that is absent is None for id and
\* Missing for status; the dict without any key is {}
EmptyItem == [id |-> None, status |-> Missing]

TodoItems == [id : TodoIds \cup {None}, status : {Missing, "pending", "completed"}]

\* [t.get("id") for t in existing_todos]
existing_ids(list) == {list[i].id : i \in 1..Len(list)}

\* the action == "add" branch without the look at existing_ids
add_todo_unchecked(list, item) ==
    LET todo_id == IF item.id # None THEN item.id ELSE TodoName(Len(list) + 1)
    IN  Append(list, [id |-> todo_id,
                      status |-> IF item.status = Missing THEN "pending" ELSE item.status])

\* the action == "add" branch: todo_item.get("id") or f"todo_{len(todo_list) + 1}"
add_todo(list, item) ==
    LET todo_id == IF item.id # None THEN item.id ELSE TodoName(Len(list) + 1)
    IN  IF todo_id \notin existing_ids(list)
        THEN Append(list, [id |-> todo_id,
                           status |-> IF item.status = Missing THEN "pending" ELSE item.status])
        ELSE list

\* the todo part of the handler; every branch asks for a todo dict that is not empty
TodoListAfter(list, action, item) ==
    LET \* the first todo of that id, the one the for loop changes before its break
        first == CHOOSE i \in 1..Len(list) :
                     list[i].id = item.id /\ \A j \in 1..(i - 1) : list[j].id # item.id
    IN
    IF item = EmptyItem THEN list
    ELSE IF action = "add" THEN add_todo(list, item)
    ELSE IF item.id = None \/ item.id \notin existing_ids(list) THEN list
    ELSE IF action = "complete"
        THEN [list EXCEPT ![first].status = "completed"]
    ELSE IF action = "update"
        THEN [list EXCEPT ![first] =
                 [id |-> @.id,
                  status |-> IF item.status = Missing THEN @.status ELSE item.status]]
    ELSE IF action = "remove" THEN SelectSeq(list, LAMBDA t : t.id # item.id)
    ELSE list

\* _handle_goal_todo_updates(envelope): meta.goal_update and meta.todo_update
\* of one envelope, either of which may be absent
_handle_goal_todo_updates ==
    \E new_goal \in {Missing, "g1"},
       action \in {"none", "add", "update", "complete", "remove"},
       item \in TodoItems :
        /\ action = "none" => item = EmptyItem
        /\ Len(TodoListAfter(todo_list, action, item)) <= MaxTodos
        /\ goal' = IF new_goal # Missing /\ new_goal # goal THEN new_goal ELSE goal
        /\ todo_list' = TodoListAfter(todo_list, action, item)
        /\ td_call' = [action |-> action, item |-> item]
        /\ UNCHANGED <<ovars, avars, lvars, tvars, gvars, rvars, svars, dvars, evars, bvars, wvars>>

InitTodo ==
    /\ goal = "CLI Chat Session"
    /\ todo_list = <<>>
    /\ td_call = [action |-> "none", item |-> EmptyItem]
    \* the orchestrator is at rest
    /\ driver = "chat"
    /\ use_flags = {"STDIO"}
    /\ n_servers = 0
    /\ ctx = InitCtx
    /\ pending_tool = NoEnvelope
    /\ cycles = 0
    /\ steps = 0
    /\ opc = "idle"
    /\ last_exec = NoExec
    /\ sessions = NoSessions
    /\ last_session = NoSession

    \* the Agent is at rest
    /\ config = [max_cycles |-> 1, max_total_tokens |-> 1, max_time_seconds |-> 0,
                 auto_approve |-> FALSE, enable_multi_tool |-> TRUE, enable_tags |-> "off"]
    /\ tag_allowed = {}
    /\ allowed_tools = {}
    /\ tags_resolved = FALSE
    /\ history = <<>>
    /\ cycles_used = 0
    /\ tokens_used = 0
    /\ elapsed = 0
    /\ last_observation = NoObs
    /\ final_envelope = NoFinal
    /\ envelope = NoFinal
    /\ result = NoResult
    /\ executed = {}
    /\ llm_calls = 0
    /\ runs = 0
    /\ pc = "idle"

    \* no decide_with_retry call is observed on its own
    /\ response = NoRaw
    /\ decided = NoFinal
    /\ attempts = 0
    /\ prompt_errors = 0
    /\ decisions = 0
    /\ lpc = "idle"

    \* no turn of the enhanced chat CLI is under way
    /\ esc_pressed = FALSE
    /\ cancelled = FALSE
    /\ env_continue = TRUE

    \* the TagManager holds its two default tags, nothing was resolved
    /\ tags = DefaultTags
    /\ principal = NoPrincipal
    /\ resolved = <<>>
    /\ granted = {}
    /\ access = {}
    /\ prompt = <<>>

    \* no dict is under repair
    /\ parsed = BareEnvelope
    /\ auto_repaired = BareEnvelope
    /\ applications = 0

    \* no SSE connection is open
    /\ messages_url = None
    /\ messages_ready = FALSE
    /\ outbound = <<>>
    /\ early = 0
    /\ posts = <<>>
    /\ inbound = 0
    /\ events_seen = 0
    /\ reader_pc = "none"
    /\ sender_pc = "none"

    \* no decide_next call is under way
    /\ dn_max_retries = 0
    /\ dn_max_repairs = 0
    /\ dn_attempt = 0
    /\ dn_repairs = 0
    /\ dn_calls = 0
    /\ dn_envelope = BareEnvelope
    /\ dn_result = [success |-> FALSE, envelope |-> BareEnvelope]
    /\ dn_pc = "idle"

    \* no _ensure_session call is under way
    /\ es_pc = [c \in {1, 2} |-> "idle"]
    /\ es_tries = [c \in {1, 2} |-> 0]
    /\ es_got = [c \in {1, 2} |-> 0]
    /\ es_cache = 0
    /\ es_created = 0
    /\ es_initialized = {}

    \* no batch is being executed
    /\ bt_parallel = FALSE
    /\ bt_size = 0
    /\ bt_submitted = 0
    /\ bt_state = <<>>
    /\ bt_results = {}
    /\ bt_pc = "running"

    \* no workflow was started
    /\ workflow_states = <<>>
    /\ wf_called = [op |-> "none", id |-> 0]
    /\ wf_returned = "none"

NextTodo ==
    \/ _handle_goal_todo_updates

SpecTodo == InitTodo /\ [][NextTodo]_vars

Permissions == {{}, {"read_file"}, {"pwd"}}

InitAgent ==
    /\ config \in [max_cycles : 1..MaxCycles, max_total_tokens : {0, 1},
                   max_time_seconds : {0, 1}, auto_approve : BOOLEAN,
                   enable_multi_tool : BOOLEAN, enable_tags : {"unset", "on", "off"}]
    \* the tags in the TagManager matter only when they are resolved
    /\ tag_allowed \in IF config.enable_tags = "on" THEN Permissions ELSE {{}}
    /\ allowed_tools = {}
    /\ tags_resolved = FALSE
    /\ history = <<>>
    /\ cycles_used = 0
    /\ tokens_used = 0
    /\ elapsed = 0
    /\ last_observation = NoObs
    /\ final_envelope = NoFinal
    /\ envelope = NoFinal
    /\ result = NoResult
    /\ executed = {}
    /\ llm_calls = 0
    /\ runs = 0
    /\ pc = "idle"
    \* no decide_with_retry call is observed on its own
    /\ response = NoRaw
    /\ decided = NoFinal
    /\ attempts = 0
    /\ prompt_errors = 0
    /\ decisions = 0
    /\ lpc = "idle"
    \* the orchestrator is at rest
    /\ driver = "chat"
    /\ use_flags = {"STDIO"}
    /\ n_servers = 0
    /\ ctx = InitCtx
    /\ pending_tool = NoEnvelope
    /\ cycles = 0
    /\ steps = 0
    /\ opc = "idle"
    /\ last_exec = NoExec
    /\ sessions = NoSessions
    /\ last_session = NoSession
    \* no turn of the enhanced chat CLI is under way
    /\ esc_pressed = FALSE
    /\ cancelled = FALSE
    /\ env_continue = TRUE
    \* the TagManager holds its two default tags, nothing was resolved
    /\ tags = DefaultTags
    /\ principal = NoPrincipal
    /\ resolved = <<>>
    /\ granted = {}
    /\ access = {}
    /\ prompt = <<>>
    \* no dict is under repair
    /\ parsed = BareEnvelope
    /\ auto_repaired = BareEnvelope
    /\ applications = 0
    \* no SSE connection is open
    /\ messages_url = None
    /\ messages_ready = FALSE
    /\ outbound = <<>>
    /\ early = 0
    /\ posts = <<>>
    /\ inbound = 0
    /\ events_seen = 0
    /\ reader_pc = "none"
    /\ sender_pc = "none"
    \* no decide_next call is under way
    /\ dn_max_retries = 0
    /\ dn_max_repairs = 0
    /\ dn_attempt = 0
    /\ dn_repairs = 0
    /\ dn_calls = 0
    /\ dn_envelope = BareEnvelope
    /\ dn_result = [success |-> FALSE, envelope |-> BareEnvelope]
    /\ dn_pc = "idle"
    \* no _ensure_session call is under way
    /\ es_pc = [c \in {1, 2} |-> "idle"]
    /\ es_tries = [c \in {1, 2} |-> 0]
    /\ es_got = [c \in {1, 2} |-> 0]
    /\ es_cache = 0
    /\ es_created = 0
    /\ es_initialized = {}
    \* no batch is being executed
    /\ bt_parallel = FALSE
    /\ bt_size = 0
    /\ bt_submitted = 0
    /\ bt_state = <<>>
    /\ bt_results = {}
    /\ bt_pc = "running"
    \* no workflow was started
    /\ workflow_states = <<>>
    /\ wf_called = [op |-> "none", id |-> 0]
    /\ wf_returned = "none"
    \* no goal or todo update was handled
    /\ goal = "CLI Chat Session"
    /\ todo_list = <<>>
    /\ td_call = [action |-> "none", item |-> [id |-> "none", status |-> "missing"]]

NextAgent ==
    \/ Run
    \/ RunRaises
    \/ Tick
    \/ BudgetExhausted
    \/ Cycle
    \/ Retry

SpecAgent == InitAgent /\ [][NextAgent]_vars

(***************************************************************************)
(*            CEPHIQ LITE: LLMClient.decide_with_retry on its own          *)
(***************************************************************************)
MaxDecisions == 2      \* decide_with_retry calls on one LLMClient

\* One pass of the for loop, attempt k (from 0): the errors of the previous
\* result are appended to the last message when k > 0 (build_messages ends with
\* the user message), decide is called, and the loop goes on or returns.
Attempt(k, raw) ==
    /\ prompt_errors' = IF k > 0 THEN prompt_errors + 1 ELSE 0
    /\ response' = raw
    /\ decided' = decide(raw)
    /\ attempts' = k + 1
    /\ lpc' = IF RetryNeeded(decide(raw), k) THEN "retry" ELSE "returned"

\* decide_with_retry(messages): the first attempt.
decide_with_retry ==
    /\ lpc \in {"idle", "returned"}
    /\ decisions < MaxDecisions
    /\ decisions' = decisions + 1
    /\ \E raw \in LLMResponses : Attempt(0, raw)
    /\ UNCHANGED <<ovars, avars, tvars, gvars, rvars, svars, dvars, evars, bvars, wvars, kvars>>

\* continue  # Retry
retry_attempt ==
    /\ lpc = "retry"
    /\ \E raw \in LLMResponses : Attempt(attempts, raw)
    /\ UNCHANGED decisions
    /\ UNCHANGED <<ovars, avars, tvars, gvars, rvars, svars, dvars, evars, bvars, wvars, kvars>>

InitLLM ==
    /\ response = NoRaw
    /\ decided = NoFinal
    /\ attempts = 0
    /\ prompt_errors = 0
    /\ decisions = 0
    /\ lpc = "idle"
    \* the Agent is at rest
    /\ config = [max_cycles |-> 1, max_total_tokens |-> 1, max_time_seconds |-> 0,
                 auto_approve |-> FALSE, enable_multi_tool |-> TRUE, enable_tags |-> "off"]
    /\ tag_allowed = {}
    /\ allowed_tools = {}
    /\ tags_resolved = FALSE
    /\ history = <<>>
    /\ cycles_used = 0
    /\ tokens_used = 0
    /\ elapsed = 0
    /\ last_observation = NoObs
    /\ final_envelope = NoFinal
    /\ envelope = NoFinal
    /\ result = NoResult
    /\ executed = {}
    /\ llm_calls = 0
    /\ runs = 0
    /\ pc = "idle"
    \* the orchestrator is at rest
    /\ driver = "chat"
    /\ use_flags = {"STDIO"}
    /\ n_servers = 0
    /\ ctx = InitCtx
    /\ pending_tool = NoEnvelope
    /\ cycles = 0
    /\ steps = 0
    /\ opc = "idle"
    /\ last_exec = NoExec
    /\ sessions = NoSessions
    /\ last_session = NoSession
    \* no turn of the enhanced chat CLI is under way
    /\ esc_pressed = FALSE
    /\ cancelled = FALSE
    /\ env_continue = TRUE
    \* the TagManager holds its two default tags, nothing was resolved
    /\ tags = DefaultTags
    /\ principal = NoPrincipal
    /\ resolved = <<>>
    /\ granted = {}
    /\ access = {}
    /\ prompt = <<>>
    \* no dict is under repair
    /\ parsed = BareEnvelope
    /\ auto_repaired = BareEnvelope
    /\ applications = 0
    \* no SSE connection is open
    /\ messages_url = None
    /\ messages_ready = FALSE
    /\ outbound = <<>>
    /\ early = 0
    /\ posts = <<>>
    /\ inbound = 0
    /\ events_seen = 0
    /\ reader_pc = "none"
    /\ sender_pc = "none"
    \* no decide_next call is under way
    /\ dn_max_retries = 0
    /\ dn_max_repairs = 0
    /\ dn_attempt = 0
    /\ dn_repairs = 0
    /\ dn_calls = 0
    /\ dn_envelope = BareEnvelope
    /\ dn_result = [success |-> FALSE, envelope |-> BareEnvelope]
    /\ dn_pc = "idle"
    \* no _ensure_session call is under way
    /\ es_pc = [c \in {1, 2} |-> "idle"]
    /\ es_tries = [c \in {1, 2} |-> 0]
    /\ es_got = [c \in {1, 2} |-> 0]
    /\ es_cache = 0
    /\ es_created = 0
    /\ es_initialized = {}
    \* no batch is being executed
    /\ bt_parallel = FALSE
    /\ bt_size = 0
    /\ bt_submitted = 0
    /\ bt_state = <<>>
    /\ bt_results = {}
    /\ bt_pc = "running"
    \* no workflow was started
    /\ workflow_states = <<>>
    /\ wf_called = [op |-> "none", id |-> 0]
    /\ wf_returned = "none"
    \* no goal or todo update was handled
    /\ goal = "CLI Chat Session"
    /\ todo_list = <<>>
    /\ td_call = [action |-> "none", item |-> [id |-> "none", status |-> "missing"]]

NextLLM ==
    \/ decide_with_retry
    \/ retry_attempt

SpecLLM == InitLLM /\ [][NextLLM]_vars

InitOrch ==
    /\ driver \in {"runner", "chat"}
    /\ use_flags \in {f \in SUBSET Transports : ModuleLoads(f)}
    /\ n_servers \in 0..MaxServers
    /\ ctx = InitCtx
    /\ pending_tool = NoEnvelope
    /\ cycles = 0
    /\ steps = 0
    /\ opc = IF driver = "runner" THEN "turn" ELSE "idle"
    /\ last_exec = NoExec
    /\ sessions = NoSessions
    /\ last_session = NoSession
    \* the Agent of cephiq_lite is at rest
    /\ config = [max_cycles |-> 1, max_total_tokens |-> 1, max_time_seconds |-> 0,
                 auto_approve |-> FALSE, enable_multi_tool |-> TRUE, enable_tags |-> "off"]
    /\ tag_allowed = {}
    /\ allowed_tools = {}
    /\ tags_resolved = FALSE
    /\ history = <<>>
    /\ cycles_used = 0
    /\ tokens_used = 0
    /\ elapsed = 0
    /\ last_observation = NoObs
    /\ final_envelope = NoFinal
    /\ envelope = NoFinal
    /\ result = NoResult
    /\ executed = {}
    /\ llm_calls = 0
    /\ runs = 0
    /\ pc = "idle"
    \* no decide_with_retry call is observed on its own
    /\ response = NoRaw
    /\ decided = NoFinal
    /\ attempts = 0
    /\ prompt_errors = 0
    /\ decisions = 0
    /\ lpc = "idle"
    \* no turn of the enhanced chat CLI is under way
    /\ esc_pressed = FALSE
    /\ cancelled = FALSE
    /\ env_continue = TRUE
    \* the TagManager holds its two default tags, nothing was resolved
    /\ tags = DefaultTags
    /\ principal = NoPrincipal
    /\ resolved = <<>>
    /\ granted = {}
    /\ access = {}
    /\ prompt = <<>>
    \* no dict is under repair
    /\ parsed = BareEnvelope
    /\ auto_repaired = BareEnvelope
    /\ applications = 0
    \* no SSE connection is open
    /\ messages_url = None
    /\ messages_ready = FALSE
    /\ outbound = <<>>
    /\ early = 0
    /\ posts = <<>>
    /\ inbound = 0
    /\ events_seen = 0
    /\ reader_pc = "none"
    /\ sender_pc = "none"
    \* no decide_next call is under way
    /\ dn_max_retries = 0
    /\ dn_max_repairs = 0
    /\ dn_attempt = 0
    /\ dn_repairs = 0
    /\ dn_calls = 0
    /\ dn_envelope = BareEnvelope
    /\ dn_result = [success |-> FALSE, envelope |-> BareEnvelope]
    /\ dn_pc = "idle"
    \* no _ensure_session call is under way
    /\ es_pc = [c \in {1, 2} |-> "idle"]
    /\ es_tries = [c \in {1, 2} |-> 0]
    /\ es_got = [c \in {1, 2} |-> 0]
    /\ es_cache = 0
    /\ es_created = 0
    /\ es_initialized = {}
    \* no batch is being executed
    /\ bt_parallel = FALSE
    /\ bt_size = 0
    /\ bt_submitted = 0
    /\ bt_state = <<>>
    /\ bt_results = {}
    /\ bt_pc = "running"
    \* no workflow was started
    /\ workflow_states = <<>>
    /\ wf_called = [op |-> "none", id |-> 0]
    /\ wf_returned = "none"
    \* no goal or todo update was handled
    /\ goal = "CLI Chat Session"
    /\ todo_list = <<>>
    /\ td_call = [action |-> "none", item |-> [id |-> "none", status |-> "missing"]]

NextOrch ==
    \/ RunnerDecideFails
    \/ RunnerCycle
    \/ run_turn
    \/ step_once_fails
    \/ step_once
    \/ approve_pending
    \/ child_exits

SpecOrch == InitOrch /\ [][NextOrch]_vars

(***************************************************************************)
(*        ORCHESTRATOR: chat_cli_enhanced.py, EnhancedChatCLI              *)
(***************************************************************************)
\* run_turn of the enhanced chat CLI up to its loop: a completed status is reset,
\* the user's text becomes the last observation, the cycle counter starts at 0.
enh_run_turn ==
    /\ driver = "enhanced" /\ opc = "idle"
    /\ ctx' = [ctx EXCEPT !.status = IF @ = "completed" THEN None ELSE @,
                          !.last_observation = "user_message"]
    /\ cycles' = 0
    /\ cancelled' = FALSE
    /\ opc' = "top"
    /\ UNCHANGED <<driver, use_flags, n_servers, pending_tool, steps, last_exec,
                   sessions, last_session, esc_pressed, env_continue>>
    /\ UNCHANGED <<avars, lvars, gvars, rvars, svars, dvars, evars, bvars, wvars, kvars>>

\* The user presses ESC while the turn is processed.
press_esc ==
    /\ driver = "enhanced" /\ opc \in {"top", "step", "cycle"}
    /\ ~esc_pressed
    /\ esc_pressed' = TRUE
    /\ UNCHANGED <<ovars, cancelled, env_continue>>
    /\ UNCHANGED <<avars, lvars, gvars, rvars, svars, dvars, evars, bvars, wvars, kvars>>

\* The top of the while loop of run_turn: _check_esc_key() takes the key from the
\* buffer; on ESC the loop is left, else step_once is entered.
check_esc_key ==
    /\ driver = "enhanced" /\ opc = "top"
    /\ IF esc_pressed
       THEN esc_pressed' = FALSE /\ cancelled' = TRUE /\ opc' = "idle"
       ELSE opc' = "step" /\ UNCHANGED <<esc_pressed, cancelled>>
    /\ UNCHANGED <<driver, use_flags, n_servers, ctx, pending_tool, cycles, steps,
                   last_exec, sessions, last_session, env_continue>>
    /\ UNCHANGED <<avars, lvars, gvars, rvars, svars, dvars, evars, bvars, wvars, kvars>>

\* step_once, decide_next failed (or gave no dict): it returns False, the loop ends.
enh_decide_fails ==
    /\ driver = "enhanced" /\ opc = "step"
    /\ opc' = "idle"
    /\ UNCHANGED <<driver, use_flags, n_servers, ctx, pending_tool, cycles, steps,
                   last_exec, sessions, last_session>>
    /\ UNCHANGED tvars
    /\ UNCHANGED <<avars, lvars, gvars, rvars, svars, dvars, evars, bvars, wvars, kvars>>

\* step_once up to run_one_cycle: the envelope of decide_next is stored in the
\* context and cached as the pending tool.
enh_decide ==
    /\ driver = "enhanced" /\ opc = "step"
    /\ steps < MaxSteps
    /\ \E env \in DecidedEnvelopes, cont \in BOOLEAN :
        /\ ctx' = [ctx EXCEPT !.envelope = env]
        /\ pending_tool' = IF env.type = "tool" THEN env ELSE NoEnvelope
        /\ env_continue' = cont
    /\ opc' = "cycle"
    /\ UNCHANGED <<driver, use_flags, n_servers, cycles, steps, last_exec,
                   sessions, last_session, esc_pressed, cancelled>>
    /\ UNCHANGED <<avars, lvars, gvars, rvars, svars, dvars, evars, bvars, wvars, kvars>>

\* The rest of step_once and of the loop body of run_turn: run_one_cycle inside
\* try / except (an exception makes step_once return False and leaves self.ctx
\* as it was), then the tests on meta.continue, on the status and on the cycle
\* counter (max_turn_cycles is None unless MAX_TURN_CYCLES / MAX_CYCLES is set).
enh_cycle ==
    /\ driver = "enhanced" /\ opc = "cycle"
    /\ steps' = steps + 1
    /\ \E cond \in Conditions, tobs \in TransportObs :
        /\ Transport(ctx, cond, tobs)
        /\ IF CycleRaises(ctx, use_flags, n_servers, tobs)
           THEN ctx' = ctx /\ opc' = "idle" /\ cycles' = cycles
           ELSE IF CycleHangs(ctx, use_flags, n_servers, tobs)
           THEN ctx' = ctx /\ opc' = "hung" /\ cycles' = cycles
           ELSE LET c1 == run_one_cycle(ctx, use_flags, n_servers, tobs) IN
                /\ ctx' = c1
                /\ IF ~env_continue \/ c1.status \in {"waiting", "completed"}
                   THEN opc' = "idle" /\ cycles' = cycles
                   ELSE opc' = "top" /\ cycles' = cycles + 1
    /\ UNCHANGED <<driver, use_flags, n_servers, pending_tool>>
    /\ UNCHANGED tvars
    /\ UNCHANGED <<avars, lvars, gvars, rvars, svars, dvars, evars, bvars, wvars, kvars>>

InitTurn ==
    /\ driver = "enhanced"
    /\ use_flags \in {{t} : t \in Transports}
    /\ n_servers \in 0..MaxServers
    /\ ctx = InitCtx
    /\ pending_tool = NoEnvelope
    /\ cycles = 0
    /\ steps = 0
    /\ opc = "idle"
    /\ last_exec = NoExec
    /\ sessions = NoSessions
    /\ last_session = NoSession
    /\ esc_pressed = FALSE
    /\ cancelled = FALSE
    /\ env_continue = TRUE
    \* the Agent is at rest
    /\ config = [max_cycles |-> 1, max_total_tokens |-> 1, max_time_seconds |-> 0,
                 auto_approve |-> FALSE, enable_multi_tool |-> TRUE, enable_tags |-> "off"]
    /\ tag_allowed = {}
    /\ allowed_tools = {}
    /\ tags_resolved = FALSE
    /\ history = <<>>
    /\ cycles_used = 0
    /\ tokens_used = 0
    /\ elapsed = 0
    /\ last_observation = NoObs
    /\ final_envelope = NoFinal
    /\ envelope = NoFinal
    /\ result = NoResult
    /\ executed = {}
    /\ llm_calls = 0
    /\ runs = 0
    /\ pc = "idle"
    \* no decide_with_retry call is observed on its own
    /\ response = NoRaw
    /\ decided = NoFinal
    /\ attempts = 0
    /\ prompt_errors = 0
    /\ decisions = 0
    /\ lpc = "idle"
    \* the TagManager holds its two default tags, nothing was resolved
    /\ tags = DefaultTags
    /\ principal = NoPrincipal
    /\ resolved = <<>>
    /\ granted = {}
    /\ access = {}
    /\ prompt = <<>>
    \* no dict is under repair
    /\ parsed = BareEnvelope
    /\ auto_repaired = BareEnvelope
    /\ applications = 0
    \* no SSE connection is open
    /\ messages_url = None
    /\ messages_ready = FALSE
    /\ outbound = <<>>
    /\ early = 0
    /\ posts = <<>>
    /\ inbound = 0
    /\ events_seen = 0
    /\ reader_pc = "none"
    /\ sender_pc = "none"
    \* no decide_next call is under way
    /\ dn_max_retries = 0
    /\ dn_max_repairs = 0
    /\ dn_attempt = 0
    /\ dn_repairs = 0
    /\ dn_calls = 0
    /\ dn_envelope = BareEnvelope
    /\ dn_result = [success |-> FALSE, envelope |-> BareEnvelope]
    /\ dn_pc = "idle"
    \* no _ensure_session call is under way
    /\ es_pc = [c \in {1, 2} |-> "idle"]
    /\ es_tries = [c \in {1, 2} |-> 0]
    /\ es_got = [c \in {1, 2} |-> 0]
    /\ es_cache = 0
    /\ es_created = 0
    /\ es_initialized = {}
    \* no batch is being executed
    /\ bt_parallel = FALSE
    /\ bt_size = 0
    /\ bt_submitted = 0
    /\ bt_state = <<>>
    /\ bt_results = {}
    /\ bt_pc = "running"
    \* no workflow was started
    /\ workflow_states = <<>>
    /\ wf_called = [op |-> "none", id |-> 0]
    /\ wf_returned = "none"
    \* no goal or todo update was handled
    /\ goal = "CLI Chat Session"
    /\ todo_list = <<>>
    /\ td_call = [action |-> "none", item |-> [id |-> "none", status |-> "missing"]]

NextTurn ==
    \/ enh_run_turn
    \/ press_esc
    \/ check_esc_key
    \/ enh_decide_fails
    \/ enh_decide
    \/ enh_cycle

SpecTurn == InitTurn /\ [][NextTurn]_vars

(***************************************************************************)
(*                     Claims about the orchestrator                       *)
(***************************************************************************)
\* The arguments of the envelope of the cycle carry approved = true, on the
\* wrapper or on the wrapped arguments.
InvokingApproved == ctx.envelope.args.approved \/ ctx.envelope.args.inner_approved

\* C1: no dangerous tool is executed without explicit approval: whenever
\* execute_envelope_tool has issued a transport call for a tool of the dangerous
\* set, the invoking arguments carried approved = true.
C1_NoDangerousWithoutApproval ==
    (last_exec.kind = "call" /\ last_exec.name \in DANGEROUS) => InvokingApproved

\* The step of a driver in which run_one_cycle ran a tool envelope whose execution
\* answered approval_required.
ApprovalAnswered ==
    /\ steps' = steps + 1
    /\ opc' # "crashed"
    /\ ctx'.envelope.type = "tool"
    /\ last_exec'.kind = "value"
    /\ last_exec'.obs = "approval_required"

\* C7: when executing a tool envelope yields approval_required, run_one_cycle
\* appends exactly an approval_request event, sets status to waiting, leaves
\* last_observation unchanged and records no tool_call; the driver loop does not
\* go on in that turn, and the runner runs no cycle once status is waiting.
C7_ApprovalRequiredWaits ==
    [][ /\ ApprovalAnswered =>
            /\ ctx'.history = Append(ctx.history, "approval_request")
            /\ ctx'.status = "waiting"
            /\ ctx'.last_observation = ctx.last_observation
            /\ opc' # "turn"
        /\ (driver = "runner" /\ ctx.status = "waiting") => steps' = steps
      ]_vars

\* C7 witness: the runner stopped, with cycles to spare, on an approval request.
C7_Witness ==
    /\ driver = "runner"
    /\ last_exec.obs = "approval_required"
    /\ ctx.status = "waiting"
    /\ Len(ctx.history) = 2
    /\ ctx.history[2] = "approval_request"
    /\ ctx.history[1] = "tool_call"
    /\ opc = "stopped"
    /\ cycles + 1 < MAX_CYCLES
   

\* C8: after a dangerous tool call was answered with approval_required, the
\* user's approval (approve_pending re-issuing the pending envelope with
\* approved = true) does not yield approval_required again.
C8_ApprovalExecutesTool ==
    [][ ( /\ driver = "chat" /\ opc = "idle"
          /\ pending_tool # NoEnvelope
          /\ last_exec.obs = "approval_required"
          /\ steps' = steps + 1
          /\ ctx'.envelope = ApprovedEnvelope(pending_tool) )
        => last_exec'.obs # "approval_required"
      ]_vars


\* C18: the module loads exactly when a USE_* flag is set, and then every
\* invocation execute_envelope_tool hands to a client module (on the generic
\* path and on the mcp_call path alike) goes to the one transport selected at
\* load time.
C18_RoutedToSelectedTransport ==
    /\ ~ModuleLoads({})
    /\ ModuleLoads(use_flags)
    /\ Cardinality({t \in Transports : t = SelectedTransport(use_flags)}) = 1
    /\ last_exec.transport # None => last_exec.transport = SelectedTransport(use_flags)

\* C17: a failure below execute_envelope_tool (connection failure after all
\* retries, missing server script, closed session, tool error) comes back as a
\* value: neither the dispatcher nor the call_tool of the client module it uses
\* ends in an exception.
C17_FailuresAreValues ==
    /\ last_exec.kind # "raise"
    /\ last_exec.kind = "call" => last_exec.obs # "raise"

\* C19: with more than one MCP server configured, a tool invocation that carries
\* no explicit server url and either no server_label or a server_label that is
\* not configured is answered with a value by execute_envelope_tool itself: it
\* is handed to no transport, so no server is contacted.
C19_AmbiguousServerRejected ==
    LET a == ctx.envelope.args IN
    ( /\ n_servers > 1
      /\ ctx.envelope.type = "tool"
      /\ last_exec.kind \in {"call", "value"}
      /\ a.server_url = None
      /\ a.server_label \notin load_servers_map(n_servers) )
        => /\ last_exec.kind = "value"
           /\ last_exec.url = None

\* C20: a session of the STDIO or SSE client, once cached, stays the one every
\* later call_tool uses, and whenever the cached session is handed out for reuse
\* its streams and background tasks are still running.
C20_ReusedSessionIsRunning ==
    [][ /\ \A k \in SessionKeys : sessions[k] # "none" => sessions'[k] # "none"
        /\ (steps' = steps + 1 /\ last_session'.key # None /\ sessions[last_session'.key] # "none")
               => last_session'.reused
        /\ (steps' = steps + 1 /\ last_session'.reused) => last_session'.state = "live"
      ]_vars

\* C21: once the child server process of the STDIO transport has exited, the
\* next call_tool does not use the cached session: it starts a new child and
\* initialises a new session, which is the one cached afterwards.
C21_ExitedChildRelaunched ==
    [][ ( /\ sessions["STDIO"] = "exited"
          /\ steps' = steps + 1
          /\ last_session'.key = "STDIO" )
        => /\ ~last_session'.reused
           /\ last_session'.state = "live"
           /\ sessions'["STDIO"] # "exited"
      ]_vars

(***************************************************************************)
(*                  Claims about the enhanced chat CLI                     *)
(***************************************************************************)
\* C22: in the turn loop of the enhanced chat CLI the ESC key is acted on only at
\* the top of a cycle; after it was seen no further cycle is started in that
\* turn; and a cycle that has started runs to its end whatever the keyboard
\* does: the tool call of a tool envelope is made and its history entry is
\* recorded before the loop is left.
C22_CancelOnlyAtTopOfCycle ==
    [][ /\ (~cancelled /\ cancelled') => (opc = "top" /\ opc' = "idle")
        /\ (cancelled /\ cancelled') => (steps' = steps /\ opc' = "idle")
        /\ (opc = "cycle" /\ opc' # "cycle") => steps' = steps + 1
        /\ ( /\ opc = "cycle" /\ opc' \in {"idle", "top"}
             /\ schema_valid(ctx.envelope) /\ ctx.envelope.type = "tool" )
               => Len(ctx'.history) = Len(ctx.history) + 1
      ]_vars

(***************************************************************************)
(*                       Claims about the Agent                            *)
(***************************************************************************)
\* The tools a handled tool/tools envelope asks for, as (id, name) items.
Requested ==
    IF envelope.state = "tool" THEN {Item("single", envelope.tool)}
    ELSE IF envelope.state = "tools" THEN {envelope.tools[k] : k \in DOMAIN envelope.tools}
    ELSE {}

\* A cycle has been completed by this step.
CycleDone == cycles_used' = cycles_used + 1

\* C2: with a non-empty allowed-tool set in force, every tool the Agent has
\* executed for the handled tool/tools envelope has its canonical name in the
\* set, and for every requested tool whose canonical name is not in the set the
\* observation is a permission error (a batch refused as a whole because
\* multi-tool execution is disabled is left aside).
C2_OnlyAllowedToolsExecuted ==
    (config.enable_tags = "on" /\ allowed_tools # {} /\ pc \in {"check", "done"})
        => /\ executed \subseteq allowed_tools
           /\ \A it \in Requested :
                (normalize_tool(it.tool) \notin allowed_tools
                    /\ (envelope.state = "tools" => config.enable_multi_tool))
                    => last_observation.error \in {"not_allowed", "no_tools_allowed"}

\* C3: cycles_used never exceeds max_cycles and tokens_used never exceeds
\* max_total_tokens, over all run() calls of one Agent, and a chat-completion
\* call is made only while both counters are below their limits.
C3_BudgetsRespected ==
    [][ /\ cycles_used' <= config'.max_cycles
        /\ tokens_used' <= config'.max_total_tokens
        /\ (pc' = "retry" \/ CycleDone)
              => /\ cycles_used < config.max_cycles
                 /\ tokens_used < config.max_total_tokens ]_vars

C3_Witness ==
    /\ runs = 2
    /\ pc = "done"
    /\ cycles_used = config.max_cycles
    /\ config.max_cycles = MaxCycles
    /\ final_envelope.error_type = "budget_exhausted"

\* C4: a run ended by the budget check has a final envelope with state error and
\* meta.stop_reason budget_exhausted.
C4_BudgetStopReason ==
    [][ (pc = "check" /\ ~check_budgets(cycles_used, tokens_used, elapsed, config)
            /\ pc' = "done")
          => /\ final_envelope'.state = "error"
             /\ final_envelope'.stop_reason = "budget_exhausted" ]_vars

\* C5: the final_envelope of every result run() returns passes validate_envelope.
C5_FinalEnvelopeValid ==
    result.returned => validate_envelope(final_envelope) = "valid"

C5_Witness ==
    /\ result.returned
    /\ llm_calls = max_retries
    /\ final_envelope.error_type = "validation_error"
    /\ cycles_used = 1

\* C6: success is true only for a final envelope of state reply or finish with
\* stop_reason user_reply or task_done, and false for a final envelope of state
\* error, clarify or confirm.
C6_SuccessOnlyOnReplyDone ==
    result.returned =>
        /\ result.success => /\ final_envelope.state \in {"reply", "finish"}
                             /\ final_envelope.stop_reason \in {"user_reply", "task_done"}
        /\ final_envelope.state \in {"error", "clarify", "confirm"} => ~result.success

\* The envelopes that end the run whatever their continue value: reply, error,
\* clarify, confirm when auto_approve is off, and a state the dispatch does not know.
Terminal(e) ==
    \/ e.state \in {"reply", "error", "clarify"}
    \/ e.state = "confirm" /\ ~config.auto_approve
    \/ e.state \notin SchemaStates

\* C9: the cycle that handles an envelope with continue=false or a terminal
\* envelope is the last of the run (the result is returned in that step); after
\* every other envelope the loop is back at its budget check; and a finished run
\* makes no further cycle.
C9_RunEndsInTerminalCycle ==
    [][ /\ CycleDone =>
              IF envelope'.cont # "true" \/ Terminal(envelope')
              THEN pc' = "done" /\ result'.returned
              ELSE pc' = "check" /\ ~result'.returned
        /\ pc = "done" => (cycles_used' = cycles_used /\ history' = history) ]_vars

C9_Witness ==
    /\ pc = "done"
    /\ envelope.state = "reply"
    /\ envelope.cont = "true"
    /\ final_envelope = envelope
    /\ cycles_used < config.max_cycles

\* C10: with auto_approve, the cycle that handles a confirm envelope leaves the
\* observation {approved: true} and the loop goes on to its next cycle; without
\* auto_approve, the cycle that handles a clarify or confirm envelope ends the run.
C10_AutoApproveContinues ==
    [][ CycleDone =>
          /\ (config.auto_approve /\ envelope'.state = "confirm")
                => (last_observation' = ApprovedObs /\ pc' = "check")
          /\ (~config.auto_approve /\ envelope'.state \in {"clarify", "confirm"})
                => pc' = "done" ]_vars

\* C11: in the Agent's history every decision event of state tool is directly
\* followed by a tool_result event and every decision event of state tools by a
\* tools_result event.
C11_DecisionFollowedByResult ==
    \A i \in DOMAIN history :
        (history[i].type = "decision" /\ history[i].state \in {"tool", "tools"})
            => /\ i < Len(history)
               /\ history[i + 1].type =
                      (IF history[i].state = "tool" THEN "tool_result" ELSE "tools_result")

\* C12: when the Agent has executed a tools envelope, the tool_ids of the
\* aggregate observation are those of the request, with one result per requested
\* member (none missing, merged or added), and all_success is true exactly when
\* every member result has success = true.
C12_BatchResultMatchesRequest ==
    (envelope.state = "tools" /\ last_observation.kind = "multi"
            /\ last_observation.error = None)
        => /\ last_observation.ids = {envelope.tools[k].tool_id : k \in DOMAIN envelope.tools}
           /\ last_observation.count = Len(envelope.tools)
           /\ last_observation.all_success
                  <=> (\A r \in last_observation.results : r.success)

\* C13: a tools envelope that passed normalize_envelope and validate_envelope has
\* non-empty and pairwise distinct tool_ids.
C13_ToolIdsUnique ==
    envelope.state = "tools" =>
        \A j, k \in DOMAIN envelope.tools :
            /\ envelope.tools[k].tool_id \notin {None, ""}
            /\ envelope.tools[j].tool_id = envelope.tools[k].tool_id => j = k

\* C14: no tools envelope with an empty tools array passes validate_envelope, so
\* the envelope the Agent dispatches on never holds an empty batch.
C14_NoEmptyBatch ==
    envelope.state = "tools" => Len(envelope.tools) > 0

\* C27: in the chat CLI every user message has the whole cycle budget: a run()
\* whose token and time budgets are not used up is not ended by "budget
\* exhausted" before it has made a single decision cycle of its own.
C27_CycleBudgetPerMessage ==
    [][ ( /\ pc = "check" /\ pc' = "done"
          /\ final_envelope' = create_error_envelope("budget_exhausted")
          /\ tokens_used < config.max_total_tokens
          /\ ~(config.max_time_seconds # 0 /\ elapsed >= config.max_time_seconds) )
            => envelope # NoFinal
      ]_vars

(***************************************************************************)
(*                      Claims about the TagManager                        *)
(***************************************************************************)
\* C23: resolve_tags_for_user returns exactly the tags of the store for which
\* (assigned_users is empty or holds the user id or "*") and (assigned_roles is
\* empty or shares a role with the principal) and (org_scope is empty or equals
\* the org id), each once, ordered by priority descending with ties in store
\* order.
C23_ResolvedTagsExact ==
    principal # NoPrincipal =>
        LET ok == {k \in DOMAIN tags :
                      /\ \/ tags[k].assigned_users = {}
                         \/ principal.user_id \in tags[k].assigned_users
                         \/ "*" \in tags[k].assigned_users
                      /\ \/ tags[k].assigned_roles = {}
                         \/ \E r \in principal.user_roles : r \in tags[k].assigned_roles
                      /\ \/ tags[k].org_scope = ""
                         \/ tags[k].org_scope = principal.org_id}
        IN /\ {resolved[i] : i \in DOMAIN resolved} = {tags[k] : k \in ok}
           /\ Len(resolved) = Cardinality(ok)
           /\ \A i, j \in DOMAIN resolved : i < j =>
                  \/ resolved[i].priority > resolved[j].priority
                  \/ /\ resolved[i].priority = resolved[j].priority
                     /\ StorePos(tags, resolved[i].tag) < StorePos(tags, resolved[j].tag)

\* C23 witness: a tag of the store does not apply, a later tag of higher priority
\* came first, two tags tie, and one was matched through "*".
C23_Witness ==
    /\ principal # NoPrincipal
    /\ Len(resolved) = 3
    /\ Len(tags) > Len(resolved)
    /\ resolved[1].priority > resolved[2].priority
    /\ StorePos(tags, resolved[1].tag) > StorePos(tags, resolved[2].tag)
    /\ resolved[2].priority = resolved[3].priority
    /\ \E i \in DOMAIN resolved :
          "*" \in resolved[i].assigned_users /\ principal.user_id \notin resolved[i].assigned_users

\* C24: the allowed-tool set of a principal is the union of allowed_tools over the
\* tags that apply to it; when the union is empty validate_tool_access permits
\* every tool, else it permits exactly the tools of the union.
C24_AllowedToolsAreUnion ==
    principal # NoPrincipal =>
        LET union == UNION {tags[k].allowed_tools :
                               k \in {k \in DOMAIN tags : TagApplies(tags[k], principal)}}
        IN /\ granted = union
           /\ access = IF union = {} THEN ToolUniverse
                       ELSE {t \in ToolUniverse : t \in union}

\* C24 witness: the union comes from more than one tag and shuts a tool out.
C24_Witness ==
    /\ principal # NoPrincipal
    /\ Cardinality(granted) >= 2
    /\ \A i \in DOMAIN resolved : resolved[i].allowed_tools # granted
    /\ access # ToolUniverse
    /\ access # {}

ErrorTypes == {"parse_error", "validation_error", "api_error"}

\* C15: whatever the chat-completion call gave back (an envelope object, JSON
\* that is no object, text without JSON, a failure of the API), decide returns,
\* and its result passes validate_envelope and is either the normalised parsed
\* envelope or an envelope built by create_error_envelope.
C15_DecideTotalAndValid ==
    response # NoRaw =>
        /\ validate_envelope(decided) = "valid"
        /\ \/ response.kind = "env" /\ decided = normalize_envelope(response.env)
           \/ \E t \in ErrorTypes : decided = create_error_envelope(t)

C15_Witness ==
    /\ response.kind = "env"
    /\ response.env.meta = "notdict"
    /\ decided = create_error_envelope("api_error")

\* C16: decide_with_retry makes at most max_retries decide calls; it asks again
\* only after a validation_error result and with attempts left, each further
\* call has one more error list appended to the user turn, and it returns as soon
\* as a result is no validation_error (or the attempts are used up).
C16_RetryOnlyOnValidationError ==
    [][ /\ attempts' <= max_retries
        /\ lpc' = "retry" => /\ decided'.error_type = "validation_error"
                             /\ attempts' < max_retries
        /\ lpc = "retry" => /\ decided.error_type = "validation_error"
                            /\ attempts' = attempts + 1
                            /\ prompt_errors' = prompt_errors + 1
        /\ lpc' = "returned" => \/ decided'.error_type # "validation_error"
                                \/ attempts' = max_retries
        /\ (lpc # "retry" /\ decisions' # decisions)
               => (attempts' = 1 /\ prompt_errors' = 0) ]_vars

C16_Witness ==
    /\ lpc = "returned"
    /\ attempts = max_retries
    /\ prompt_errors = max_retries - 1
    /\ decided = create_error_envelope("validation_error")

(***************************************************************************)
(*                       Claims about decide_next                          *)
(***************************************************************************)
\* C26: for every dict that is valid under the envelope contract, whatever its
\* state, _auto_repair_envelope returns the dict unchanged: no key is added,
\* removed or altered and the state stays what it was.
C26_ValidEnvelopeUnchanged ==
    (applications = 1 /\ validate_state_envelope(parsed)) => auto_repaired = parsed

\* C28: after _auto_repair_envelope a dict of state plan, wait, finish, handoff,
\* reflect or error has its sub-object with every required field, and one of
\* state ask_human has its reason, with or without a meta object; state tool
\* with no tool name has become state error; a meta.continue that was no
\* boolean is one; a state that is not one of valid_states has become error.
C28_MissingPartsFilledIn ==
    applications = 1 =>
        /\ parsed.state \in {"plan", "wait", "finish", "handoff", "reflect", "error"} =>
              /\ parsed.state \in auto_repaired.has
              /\ \A f \in DOMAIN auto_repaired[parsed.state] :
                    auto_repaired[parsed.state][f] # Missing
        /\ parsed.state = "ask_human" => auto_repaired.reason # Missing
        /\ (parsed.state = "tool" /\ parsed.tool = Missing) => auto_repaired.state = "error"
        /\ ("meta" \in parsed.has /\ parsed.meta.continue = "nonbool") =>
              auto_repaired.meta.continue \in {"true", "false"}
        /\ parsed.state \notin valid_states => auto_repaired.state = "error"

\* C29: decide_next returns a fallback error envelope only when all
\* max_retries + 1 attempts are used up, it returns an envelope that validates
\* in the step that produced it, and it makes at most
\* (max_retries + 1) * (1 + max_repairs) model calls.
C29_FallbackOnlyAfterAllAttempts ==
    [][ /\ ( /\ dn_pc' = "returned" /\ dn_pc # "returned"
             /\ dn_result'.envelope.error.error_type
                    \in {"validation_failure", "generation_failure"} )
               => dn_attempt' = dn_max_retries
        /\ (dn_pc # "idle" /\ validate_state_envelope(dn_envelope') /\ dn_envelope' # dn_envelope)
               => (dn_pc' = "returned" /\ dn_result'.envelope = dn_envelope')
        /\ dn_calls' <= (dn_max_retries + 1) * (1 + dn_max_repairs)
      ]_vars

(***************************************************************************)
(*                     Claims about the SSE bridge                         *)
(***************************************************************************)
\* C30: message_sender makes a POST only after process_events has received an
\* endpoint event and stored its URL; every POST takes the oldest message of
\* the outbound stream, so messages go out in the order they were written, and
\* it goes to the URL that is stored.
C30_PostsAfterEndpointInOrder ==
    [][ posts' # posts =>
          /\ messages_ready
          /\ messages_url \in {strip(ev.data) : ev \in {x \in SSEEvents : x.event = "endpoint"}}
          /\ messages_url # ""
          /\ outbound # <<>>
          /\ Len(posts') = Len(posts) + 1
          /\ SubSeq(posts', 1, Len(posts)) = posts
          /\ posts'[Len(posts')].message = Head(outbound)
          /\ posts'[Len(posts')].url = full_url(messages_url)
          /\ outbound' = Tail(outbound)
      ]_vars

\* Two messages were written before the endpoint event and both were POSTed.
C30_Witness ==
    /\ early >= 2
    /\ Len(posts) >= 2
    /\ posts[1].message # posts[2].message
    /\ posts[2].status = "202"

\* C31: once process_events has failed with a read error, the error message
\* is on the inbound stream and message_sender comes to an end.
C31_ReadErrorClosesBothSides ==
    (reader_pc = "failed") ~> (inbound >= 1 /\ sender_pc = "ended")

\* C32: whatever the interleaving of the _ensure_session calls for one URL,
\* at most one session is established for it, every caller that returns has
\* that session, and the cached session is one whose initialize() succeeded.
C32_FirstUseIsExclusive ==
    /\ Cardinality(es_initialized) <= 1
    /\ \A c1, c2 \in Callers :
          (es_pc[c1] = "returned" /\ es_pc[c2] = "returned") => es_got[c1] = es_got[c2]
    /\ es_cache # 0 => es_cache \in es_initialized

\* C33: with parallel=true never more than 5 members of the batch are
\* executing at once, and execute_batch returns only when every member has
\* completed, succeeded or failed.
C33_FiveAtOnceAndAllDone ==
    /\ bt_parallel => Cardinality(Executing) <= 5
    /\ bt_pc = "returned" => \A m \in 1..bt_size : bt_state[m] \in {"ok", "failed"}

C33_Witness ==
    /\ bt_parallel /\ bt_pc = "returned" /\ bt_size > 5
    /\ \E m \in 1..bt_size : bt_state[m] = "failed"

\* C34: a call of Agent.run never ends by raising, and it makes at most
\* max_cycles LLM decisions before it returns its result.
C34_RunReturnsWithinMaxCycles ==
    /\ pc # "raised"
    /\ cycles_used <= config.max_cycles

\* C35: a workflow that start_workflow creates is active at step 1; a
\* continue_workflow on an active workflow adds one to current_step while that
\* is below total_steps and marks the workflow completed at the last step;
\* every workflow has 1 <= current_step <= total_steps; a continue_workflow on
\* a completed or unknown workflow returns an error and changes no state.
C35_WorkflowStepsInOrder ==
    [][ /\ \A w \in DOMAIN workflow_states' :
              /\ 1 <= workflow_states'[w].current_step
              /\ workflow_states'[w].current_step <= workflow_states'[w].total_steps
        /\ \A w \in DOMAIN workflow_states' \ DOMAIN workflow_states :
              /\ workflow_states'[w].status = "active"
              /\ workflow_states'[w].current_step = 1
        /\ \A w \in DOMAIN workflow_states :
              LET old == workflow_states[w]
                  new == workflow_states'[w]
              IN  IF wf_called' = [op |-> "continue", id |-> w] /\ old.status = "active"
                  THEN IF old.current_step < old.total_steps
                       THEN new.current_step = old.current_step + 1 /\ new.status = "active"
                       ELSE new.current_step = old.current_step /\ new.status = "completed"
                  ELSE new = old
        /\ (wf_called'.op = "continue"
              /\ (wf_called'.id \notin DOMAIN workflow_states
                     \/ workflow_states[wf_called'.id].status = "completed"))
              => (wf_returned' = "error" /\ workflow_states' = workflow_states) ]_vars

C37_TodoIdsDistinct ==
    [][ LET action == td_call'.action
            todo_id == td_call'.item.id
        IN  /\ \A i, j \in 1..Len(todo_list') :
                  todo_list'[i].id = todo_list'[j].id => i = j
            /\ (action = "add" /\ todo_id \in existing_ids(todo_list))
                  => todo_list' = todo_list
            /\ action \in {"update", "complete"}
                  => /\ Len(todo_list') = Len(todo_list)
                     /\ \A i \in 1..Len(todo_list) :
                           /\ todo_list'[i].id = todo_list[i].id
                           /\ todo_list[i].id # todo_id => todo_list'[i] = todo_list[i]
            /\ (action = "complete" /\ todo_id # None)
                  => \A i \in 1..Len(todo_list') :
                        todo_list'[i].id = todo_id => todo_list'[i].status = "completed"
            /\ (action = "remove" /\ td_call'.item # EmptyItem)
                  => todo_list' = SelectSeq(todo_list, LAMBDA t : t.id # todo_id) ]_vars

C37_Witness ==
    /\ Len(todo_list) = 2
    /\ td_call.action = "add"
    /\ td_call.item.id = todo_list[1].id
    /\ todo_list[1].status = "completed"

\* C38: a todo_update add whose todo has no id appends exactly one new todo,
\* and the id generated for it is the id of no todo already in the list.
C38_GeneratedIdIsFresh ==
    [][ (td_call'.action = "add" /\ td_call'.item # EmptyItem /\ td_call'.item.id = None)
            => /\ Len(todo_list') = Len(todo_list) + 1
               /\ SubSeq(todo_list', 1, Len(todo_list)) = todo_list
               /\ todo_list'[Len(todo_list')].id \notin existing_ids(todo_list) ]_vars

\* C39: in the chat CLI pending_tool is set only while the latest cycle was
\* that tool's call and ended with approval_required (an approval request is
\* the last event and the status is waiting), so that approve_pending never
\* runs a tool whose call was already executed.
C39_PendingOnlyAfterApprovalRequired ==
    pending_tool # NoEnvelope =>
        /\ ctx.envelope = pending_tool
        /\ ctx.status = "waiting"
        /\ Len(ctx.history) > 0
        /\ ctx.history[Len(ctx.history)] = "approval_request"

\* C40: the status waiting is left once the user grants or denies the
\* approval (approve_pending) or sends a new message (run_turn).
C40_WaitingIsLeft ==
    [][ /\ (/\ ctx.status = "waiting" /\ opc = "idle" /\ opc' = "idle"
            /\ pending_tool # NoEnvelope /\ pending_tool' = NoEnvelope
            /\ steps' = steps + 1) => ctx'.status # "waiting"
        /\ (ctx.status = "waiting" /\ opc = "idle" /\ opc' = "turn")
              => ctx'.status # "waiting" ]_vars

====
